---------------------------- MODULE Spec2Model ----------------------------
(***************************************************************************)
(* Model of the ETH/XMR atomic swap of noot/atomic-swap.                   *)
(*                                                                         *)
(*  - the escrow contract SwapFactory.sol as a state machine over the      *)
(*    stage mapping, the event log and the ether balances;                 *)
(*  - the XMR-holder (Bob / Maker) swap state of protocol/bob;             *)
(*  - the ETH-holder (Alice / Taker) as far as the Maker and the escrow    *)
(*    see it.                                                              *)
(***************************************************************************)
EXTENDS Integers, Naturals, Sequences, FiniteSets, TLC

VARIABLES
    now,        \* block.timestamp of the block being built
    swaps,      \* SwapFactory.swaps: swapID -> Stage (absent = INVALID)
    logs,       \* the contract's event log, in emission order
    balances,   \* ether of every account
    escrow,     \* ether held by the SwapFactory contract
    lastCall,   \* the transaction just executed and its outcome, until its
                \* receipt has been read
    taker,      \* the ETH-holder's (Alice's) swap state
    maker,      \* the XMR-holder's (Bob's) swapState
    stream,     \* the protocol stream between the two peers
    monero,     \* the Monero side: transfers made and wallets generated
    wire,       \* the bytes written to a stream, and the message they encode
    received,   \* what DecodeMessage returned for the bytes read
    takes,      \* every Taker's call of take_offer on bob's offer
    rpc,        \* bob's daemon as its RPC clients see it: the context of the
                \* swap and what a status subscription was answered
    recovery    \* the results of the runs of the peers' recovery

contractVars == <<swaps, logs, balances, escrow>>
protoVars == <<taker, maker, stream, monero, takes, rpc, recovery>>
codecVars == <<wire, received>>
vars == <<now, swaps, logs, balances, escrow, lastCall, taker, maker, stream, monero,
          wire, received, takes, rpc, recovery>>

-----------------------------------------------------------------------------
(* Bounds *)

MaxTime == 3        \* block timestamps run over 0..MaxTime
MaxSwaps == 1       \* number of successful new_swap calls explored
UintMax == 9        \* scaled-down range of uint256 (checked arithmetic)
MaxTxs == 2         \* transactions one swap hands to the external signer
MaxStatuses == 3    \* statuses published on the status channel of one swap

-----------------------------------------------------------------------------
(* Input domains *)

Addresses == {"alice", "bob"}
\* carol runs another swap on the same SwapFactory
Accounts == Addresses \cup {"carol"}
\* the spend keys generated for the swap between alice and bob, and the
\* keys of carol's swap; each is both an ed25519 and a secp256k1 scalar
MakerSpendKey == 1
TakerSpendKey == 2
OtherRefundKey == 4
OtherClaimKey == 5
Scalars == {MakerSpendKey, TakerSpendKey}
Durations == {1, UintMax}
Nonces == {0}
Values == {1}
\* every account can fund each swap that is explored
InitBalance == MaxSwaps + 1

-----------------------------------------------------------------------------
(* Secp256k1.mulVerify: keccak(s * G) == pubKey.  The group is scaled     *)
(* down to Z_GroupOrder with generator Gen; Keccak256 is collision free.   *)

GroupOrder == 7
Gen == 3

MulG(s) == (s * Gen) % GroupOrder

Keccak256(x) == <<"keccak", x>>

mulVerify(s, pubKey) == Keccak256(MulG(s)) = pubKey

verifySecret(s, pubKey) == mulVerify(s, pubKey)

\* the keys every explored swap between alice and bob is made with
ClaimKey == Keccak256(MulG(MakerSpendKey))
RefundKey == Keccak256(MulG(TakerSpendKey))

-----------------------------------------------------------------------------
(* Swap struct and the swap ID keccak256(abi.encode(swap)) *)

abi_encode(swap) ==
    <<swap.owner, swap.claimer, swap.pubKeyClaim, swap.pubKeyRefund,
      swap.timeout_0, swap.timeout_1, swap.value, swap.nonce>>

SwapID(swap) == Keccak256(abi_encode(swap))

\* the struct whose encoding hashes to id (the calldata of its new_swap)
SwapOfID(id) ==
    LET e == id[2] IN
    [owner |-> e[1], claimer |-> e[2], pubKeyClaim |-> e[3],
     pubKeyRefund |-> e[4], timeout_0 |-> e[5], timeout_1 |-> e[6],
     value |-> e[7], nonce |-> e[8]]

Stage(id) == IF id \in DOMAIN swaps THEN swaps[id] ELSE "INVALID"

is_ready(id) == Stage(id) = "READY"

NoCall == [op |-> "none"]

InitChain ==
    /\ now = 0
    /\ swaps = << >>
    /\ logs = << >>
    /\ balances = [a \in Accounts |-> InitBalance]
    /\ escrow = 0
    /\ lastCall = NoCall


-----------------------------------------------------------------------------
(* SwapFactory.sol *)

Emit(ev) == Append(logs, ev)

\* mutant: timeout_1 is set one duration after now, not two
NewSwapStruct_SingleDuration(sender, pubKeyClaim, pubKeyRefund, claimer, timeoutDuration, nonce, value) ==
    [owner |-> sender, claimer |-> claimer,
     pubKeyClaim |-> pubKeyClaim, pubKeyRefund |-> pubKeyRefund,
     timeout_0 |-> now + timeoutDuration,
     timeout_1 |-> now + timeoutDuration,
     value |-> value, nonce |-> nonce]

\* the Swap memory struct new_swap fills in
NewSwapStruct(sender, pubKeyClaim, pubKeyRefund, claimer, timeoutDuration, nonce, value) ==
    [owner |-> sender, claimer |-> claimer,
     pubKeyClaim |-> pubKeyClaim, pubKeyRefund |-> pubKeyRefund,
     timeout_0 |-> now + timeoutDuration,
     timeout_1 |-> now + (timeoutDuration * 2),
     value |-> value, nonce |-> nonce]

\* new_swap: payable, msg.sender = sender, msg.value = value
new_swap(sender, pubKeyClaim, pubKeyRefund, claimer, timeoutDuration, nonce, value) ==
    LET call == [op |-> "new_swap", sender |-> sender, pubKeyClaim |-> pubKeyClaim,
                 pubKeyRefund |-> pubKeyRefund, claimer |-> claimer,
                 timeoutDuration |-> timeoutDuration, nonce |-> nonce,
                 value |-> value]
        \* checked arithmetic of solidity ^0.8: overflow reverts
        overflow == \/ timeoutDuration * 2 > UintMax
                    \/ now + timeoutDuration * 2 > UintMax
        swap == NewSwapStruct(sender, pubKeyClaim, pubKeyRefund, claimer,
                              timeoutDuration, nonce, value)
        swapID == SwapID(swap)
    IN
    /\ balances[sender] >= value
    /\ IF ~overflow /\ Stage(swapID) = "INVALID"
       THEN /\ logs' = Emit([name |-> "New", swapID |-> swapID,
                             claimKey |-> pubKeyClaim, refundKey |-> pubKeyRefund,
                             timeout_0 |-> swap.timeout_0,
                             timeout_1 |-> swap.timeout_1])
            /\ swaps' = swaps @@ (swapID :> "PENDING")
            /\ balances' = [balances EXCEPT ![sender] = @ - value]
            /\ escrow' = escrow + value
            /\ lastCall' = call @@ [ok |-> TRUE, swapID |-> swapID]
       ELSE /\ UNCHANGED contractVars
            /\ lastCall' = call @@ [ok |-> FALSE,
                                    swapID |-> IF overflow THEN << >> ELSE swapID]
    /\ UNCHANGED now

\* mutant: the owner check is missing
SetReadyRequire_AnySender(sender, swap) ==
    /\ Stage(SwapID(swap)) = "PENDING"

\* the require statements of set_ready
SetReadyRequire(sender, swap) ==
    /\ Stage(SwapID(swap)) = "PENDING"
    /\ swap.owner = sender

set_ready(sender, swap) ==
    LET swapID == SwapID(swap)
        call == [op |-> "set_ready", sender |-> sender, swap |-> swap,
                 swapID |-> swapID]
    IN
    /\ IF SetReadyRequire(sender, swap)
       THEN /\ swaps' = [swaps EXCEPT ![swapID] = "READY"]
            /\ logs' = Emit([name |-> "Ready", swapID |-> swapID])
            /\ UNCHANGED <<balances, escrow>>
            /\ lastCall' = call @@ [ok |-> TRUE]
       ELSE /\ UNCHANGED contractVars
            /\ lastCall' = call @@ [ok |-> FALSE]
    /\ UNCHANGED now

\* mutant: a COMPLETED swap can be claimed again
ClaimRequire_IgnoresCompleted(sender, swap, s) ==
    LET swapStage == Stage(SwapID(swap)) IN
    /\ swapStage # "INVALID"
    /\ sender = swap.claimer
    /\ (now >= swap.timeout_0 \/ swapStage = "READY")
    /\ now < swap.timeout_1
    /\ verifySecret(s, swap.pubKeyClaim)

\* mutant: the "too late to claim" check is missing
ClaimRequire_NoDeadline(sender, swap, s) ==
    LET swapStage == Stage(SwapID(swap)) IN
    /\ swapStage # "COMPLETED" /\ swapStage # "INVALID"
    /\ sender = swap.claimer
    /\ (now >= swap.timeout_0 \/ swapStage = "READY")
    /\ verifySecret(s, swap.pubKeyClaim)

\* the require statements of claim, verifySecret included
ClaimRequire(sender, swap, s) ==
    LET swapStage == Stage(SwapID(swap)) IN
    /\ swapStage # "COMPLETED" /\ swapStage # "INVALID"
    /\ sender = swap.claimer
    /\ (now >= swap.timeout_0 \/ swapStage = "READY")
    /\ now < swap.timeout_1
    /\ verifySecret(s, swap.pubKeyClaim)

claim(sender, swap, s) ==
    LET swapID == SwapID(swap)
        call == [op |-> "claim", sender |-> sender, swap |-> swap,
                 swapID |-> swapID, s |-> s]
    IN
    /\ IF ClaimRequire(sender, swap, s)
       THEN /\ logs' = Emit([name |-> "Claimed", swapID |-> swapID, s |-> s])
            /\ balances' = [balances EXCEPT ![swap.claimer] = @ + swap.value]
            /\ escrow' = escrow - swap.value
            /\ swaps' = [swaps EXCEPT ![swapID] = "COMPLETED"]
            /\ lastCall' = call @@ [ok |-> TRUE]
       ELSE /\ UNCHANGED contractVars
            /\ lastCall' = call @@ [ok |-> FALSE]
    /\ UNCHANGED now

\* mutant: a COMPLETED swap can be refunded again
RefundRequire_IgnoresCompleted(sender, swap, s) ==
    LET swapStage == Stage(SwapID(swap)) IN
    /\ swapStage # "INVALID"
    /\ sender = swap.owner
    /\ \/ now >= swap.timeout_1
       \/ (now < swap.timeout_0 /\ swapStage # "READY")
    /\ verifySecret(s, swap.pubKeyRefund)

\* mutant: the late refund window opens strictly after timeout_1
RefundRequire_StrictT1(sender, swap, s) ==
    LET swapStage == Stage(SwapID(swap)) IN
    /\ swapStage # "COMPLETED" /\ swapStage # "INVALID"
    /\ sender = swap.owner
    /\ \/ now > swap.timeout_1
       \/ (now < swap.timeout_0 /\ swapStage # "READY")
    /\ verifySecret(s, swap.pubKeyRefund)

\* mutant: the late refund window opens at timeout_0
RefundRequire_WrongTimeout(sender, swap, s) ==
    LET swapStage == Stage(SwapID(swap)) IN
    /\ swapStage # "COMPLETED" /\ swapStage # "INVALID"
    /\ sender = swap.owner
    /\ \/ now >= swap.timeout_0
       \/ (now < swap.timeout_0 /\ swapStage # "READY")
    /\ verifySecret(s, swap.pubKeyRefund)

\* mutant: a swap that is not READY can be refunded at any time
RefundRequire_WheneverPending(sender, swap, s) ==
    LET swapStage == Stage(SwapID(swap)) IN
    /\ swapStage # "COMPLETED" /\ swapStage # "INVALID"
    /\ sender = swap.owner
    /\ \/ now >= swap.timeout_1
       \/ swapStage # "READY"
    /\ verifySecret(s, swap.pubKeyRefund)

\* the require statements of refund, verifySecret included
RefundRequire(sender, swap, s) ==
    LET swapStage == Stage(SwapID(swap)) IN
    /\ swapStage # "COMPLETED" /\ swapStage # "INVALID"
    /\ sender = swap.owner
    /\ \/ now >= swap.timeout_1
       \/ (now < swap.timeout_0 /\ swapStage # "READY")
    /\ verifySecret(s, swap.pubKeyRefund)

\* mutant: the stage is not set to COMPLETED
refund_KeepsStage(sender, swap, s) ==
    LET swapID == SwapID(swap)
        call == [op |-> "refund", sender |-> sender, swap |-> swap,
                 swapID |-> swapID, s |-> s]
    IN
    /\ IF RefundRequire(sender, swap, s)
       THEN /\ logs' = Emit([name |-> "Refunded", swapID |-> swapID, s |-> s])
            /\ balances' = [balances EXCEPT ![swap.owner] = @ + swap.value]
            /\ escrow' = escrow - swap.value
            /\ UNCHANGED swaps
            /\ lastCall' = call @@ [ok |-> TRUE]
       ELSE /\ UNCHANGED contractVars
            /\ lastCall' = call @@ [ok |-> FALSE]
    /\ UNCHANGED now

refund(sender, swap, s) ==
    LET swapID == SwapID(swap)
        call == [op |-> "refund", sender |-> sender, swap |-> swap,
                 swapID |-> swapID, s |-> s]
    IN
    /\ IF RefundRequire(sender, swap, s)
       THEN /\ logs' = Emit([name |-> "Refunded", swapID |-> swapID, s |-> s])
            /\ balances' = [balances EXCEPT ![swap.owner] = @ + swap.value]
            /\ escrow' = escrow - swap.value
            /\ swaps' = [swaps EXCEPT ![swapID] = "COMPLETED"]
            /\ lastCall' = call @@ [ok |-> TRUE]
       ELSE /\ UNCHANGED contractVars
            /\ lastCall' = call @@ [ok |-> FALSE]
    /\ UNCHANGED now


-----------------------------------------------------------------------------
(* Network messages: net/message *)

\* message.Type
QueryResponseType == 0
SendKeysType == 1
NotifyContractDeployedType == 2
NotifyXMRLockType == 3
NotifyReadyType == 4
NotifyClaimedType == 5
NotifyRefundType == 6
NilType == 7

MessageTypes == QueryResponseType..NotifyRefundType

\* the first byte of an input: every message type, NilType and one more
TagBytes == QueryResponseType..(NilType + 1)

\* the strings the peers put into messages: hex texts, or nothing
Strings == {"", "0xab"}
Floats == {0, 1}
NilPtr == [isNil |-> TRUE, v |-> 0]
BigInts == {NilPtr, [isNil |-> FALSE, v |-> 1]}
NilSlice == [isNil |-> TRUE, v |-> << >>]
OfferLists == {NilSlice, [isNil |-> FALSE, v |-> << >>]}

\* the Go type of every field of the struct of a message type
FieldKinds(t) ==
    CASE t = QueryResponseType -> [Offers |-> "slice"]
      [] t = SendKeysType ->
            [OfferID |-> "string", ProvidedAmount |-> "float64",
             PublicSpendKey |-> "string", PublicViewKey |-> "string",
             PrivateViewKey |-> "string", DLEqProof |-> "string",
             Secp256k1PublicKey |-> "string", EthAddress |-> "string"]
      [] t = NotifyContractDeployedType ->
            [Address |-> "string", ContractSwapID |-> "bigint"]
      [] t = NotifyXMRLockType -> [Address |-> "string"]
      [] t = NotifyReadyType -> [f \in {} |-> "string"]
      [] t = NotifyClaimedType -> [TxHash |-> "string"]
      [] t = NotifyRefundType -> [TxHash |-> "string"]

ZeroValue(kind) ==
    CASE kind = "string" -> ""
      [] kind = "float64" -> 0
      [] kind = "bigint" -> NilPtr
      [] kind = "slice" -> NilSlice

\* a pointer to a message struct; the nil interface is NoMessage
Message(t, fields) == [type |-> t, isNil |-> FALSE, fields |-> fields]
TypedNil(t) == [type |-> t, isNil |-> TRUE, fields |-> << >>]
NoMessage == TypedNil(NilType)

\* the values of a message type
MessagesOf(t) ==
    CASE t = QueryResponseType ->
            {Message(t, [Offers |-> o]) : o \in OfferLists}
      [] t = SendKeysType ->
            {Message(t, [OfferID |-> k[1], ProvidedAmount |-> p,
                         PublicSpendKey |-> k[2], PublicViewKey |-> k[3],
                         PrivateViewKey |-> k[4], DLEqProof |-> k[5],
                         Secp256k1PublicKey |-> k[6], EthAddress |-> a]) :
                k \in [1..6 -> Strings], p \in Floats, a \in Strings}
      [] t = NotifyContractDeployedType ->
            {Message(t, [Address |-> a, ContractSwapID |-> i]) :
                a \in Strings, i \in BigInts}
      [] t = NotifyXMRLockType -> {Message(t, [Address |-> a]) : a \in Strings}
      [] t = NotifyReadyType -> {Message(t, [f \in {} |-> ""])}
      [] t = NotifyClaimedType -> {Message(t, [TxHash |-> h]) : h \in Strings}
      [] t = NotifyRefundType -> {Message(t, [TxHash |-> h]) : h \in Strings}

\* JSON texts, by the value they denote; JInvalid is a text that is no JSON
JNull == [kind |-> "null", v |-> 0]
JInvalid == [kind |-> "invalid", v |-> 0]
JString(x) == [kind |-> "string", v |-> x]
JNumber(n) == [kind |-> "number", v |-> n]
JArray(a) == [kind |-> "array", v |-> a]
JObject(f) == [kind |-> "object", v |-> f]

\* json.Marshal of a field
MarshalField(kind, x) ==
    CASE kind = "string" -> JString(x)
      [] kind = "float64" -> JNumber(x)
      [] kind = "bigint" -> IF x.isNil THEN JNull ELSE JNumber(x.v)
      [] kind = "slice" -> IF x.isNil THEN JNull ELSE JArray(x.v)

\* json.Marshal of a message struct: an object with every field
Marshal(m) ==
    JObject([f \in DOMAIN FieldKinds(m.type) |->
                MarshalField(FieldKinds(m.type)[f], m.fields[f])])

\* Message.Encode: the type byte, then the JSON text
Encode(m) == <<m.type, Marshal(m)>>

\* json.Unmarshal of a field: TRUE when the JSON value fits the Go type
FieldFits(kind, j) ==
    \/ j.kind = "null"
    \/ kind = "string" /\ j.kind = "string"
    \/ kind \in {"float64", "bigint"} /\ j.kind = "number"
    \/ kind = "slice" /\ j.kind = "array"

UnmarshalField(kind, j) ==
    IF j.kind = "null" THEN ZeroValue(kind)
    ELSE IF kind \in {"bigint", "slice"} THEN [isNil |-> FALSE, v |-> j.v]
    ELSE j.v

\* json.Unmarshal(text, &m) for var m *T of message type t
Unmarshal(t, j) ==
    LET kinds == FieldKinds(t) IN
    IF j.kind = "null" THEN [msg |-> TypedNil(t), err |-> ""]
    ELSE IF j.kind # "object" THEN [msg |-> NoMessage, err |-> "json"]
    ELSE IF \E f \in DOMAIN kinds \cap DOMAIN j.v : ~FieldFits(kinds[f], j.v[f])
    THEN [msg |-> NoMessage, err |-> "json"]
    ELSE [msg |-> Message(t, [f \in DOMAIN kinds |->
                    IF f \in DOMAIN j.v THEN UnmarshalField(kinds[f], j.v[f])
                    ELSE ZeroValue(kinds[f])]),
          err |-> ""]

\* the JSON text after the type byte (b[1:]); empty bytes are no JSON
BodyOf(b) == IF Len(b) >= 2 THEN b[2] ELSE JInvalid

\* message.DecodeMessage
DecodeMessage(b) ==
    IF Len(b) = 0 THEN [msg |-> NoMessage, err |-> "invalid message bytes"]
    ELSE IF b[1] \in {QueryResponseType, SendKeysType,
                      NotifyContractDeployedType, NotifyXMRLockType,
                      NotifyReadyType, NotifyClaimedType}
    THEN Unmarshal(b[1], BodyOf(b))
    ELSE [msg |-> NoMessage, err |-> "invalid message type"]

\* bodies a peer may write after the type byte
RawBodies ==
    <<JInvalid, JNull, JString("0xab"), JNumber(1), JArray(<< >>),
      JObject([f \in {} |-> JNull]),
      JObject([Address |-> JNumber(1)]),
      JObject([TxHash |-> JNumber(1)]),
      JObject([Address |-> JString("0xab")]),
      JObject([TxHash |-> JString("0xab")]),
      JObject([Unknown |-> JString("0xab")])>>

NothingRead == [done |-> FALSE, hasSent |-> FALSE, sent |-> NoMessage,
                bytes |-> << >>, msg |-> NoMessage, err |-> ""]

InitCodec ==
    /\ wire = [written |-> FALSE, hasSent |-> FALSE, sent |-> NoMessage,
               bytes |-> << >>]
    /\ received = NothingRead

\* a peer encodes a message and writes it to the stream
WriteMessage ==
    /\ ~wire.written
    /\ \E t \in MessageTypes : \E m \in MessagesOf(t) :
        wire' = [written |-> TRUE, hasSent |-> TRUE, sent |-> m,
                 bytes |-> Encode(m)]
    /\ UNCHANGED <<now, contractVars, lastCall, protoVars, received>>

\* a peer writes bytes of its own choice, or none
WriteBytes ==
    /\ ~wire.written
    /\ \E b \in {<< >>} \cup {<<t>> : t \in TagBytes} :
        wire' = [written |-> TRUE, hasSent |-> FALSE, sent |-> NoMessage,
                 bytes |-> b]
    /\ UNCHANGED <<now, contractVars, lastCall, protoVars, received>>

WriteBody ==
    /\ ~wire.written
    /\ \E t \in TagBytes : \E i \in 1..Len(RawBodies) :
        wire' = [written |-> TRUE, hasSent |-> FALSE, sent |-> NoMessage,
                 bytes |-> <<t, RawBodies[i]>>]
    /\ UNCHANGED <<now, contractVars, lastCall, protoVars, received>>

\* the stream handler reads the bytes and decodes them
ReadMessage ==
    /\ wire.written /\ ~received.done
    /\ received' = [done |-> TRUE, hasSent |-> wire.hasSent,
                    sent |-> wire.sent, bytes |-> wire.bytes,
                    msg |-> DecodeMessage(wire.bytes).msg,
                    err |-> DecodeMessage(wire.bytes).err]
    /\ UNCHANGED <<now, contractVars, lastCall, protoVars, wire>>

-----------------------------------------------------------------------------
(* Monero keys, scaled down to the group Z_EdOrder with generator EdGen *)

EdOrder == 7
EdGen == 2

\* the public key k * G of a private key
PublicKey(k) == (k * EdGen) % EdOrder

\* PrivateSpendKey.View: the view key is a hash of the spend key, reduced
View(sk) == (sk * sk + 1) % EdOrder

SumPrivateSpendKeys(a, b) == (a + b) % EdOrder

SumPrivateViewKeys(a, b) == (a + b) % EdOrder

NewPrivateKeyPair(sk, vk) == [sk |-> sk, vk |-> vk]

PublicKeyPair(kp) == [sk |-> PublicKey(kp.sk), vk |-> PublicKey(kp.vk)]

SumSpendAndViewKeys(a, b) ==
    [sk |-> (a.sk + b.sk) % EdOrder, vk |-> (a.vk + b.vk) % EdOrder]

Address(pub) == <<"address", pub.sk, pub.vk>>

NoAddress == <<"address">>

\* monero.CreateMoneroWallet: generates the wallet of kp, returns its address
CreateMoneroWallet(kp) == Address(PublicKeyPair(kp))

-----------------------------------------------------------------------------
(* The swap between alice (ETH-holder) and bob (XMR-holder) *)

\* the swap timeouts alice may be configured with

SwapTimeouts == {1, 2}
EthValue == 1       \* the ether bob expects (ReceivedAmount)
XMRAmount == 1      \* the XMR bob provides

NoSwap == [owner |-> "none"]

\* the offer bob made and alice takes
OfferID == "offer"

\* bob's keys for this session (generateAndSetKeys)
MakerPrivkeys == NewPrivateKeyPair(MakerSpendKey, View(MakerSpendKey))
MakerPubkeys == PublicKeyPair(MakerPrivkeys)
MakerSecp256k1Pub == MulG(MakerSpendKey)

TakerPrivkeys == NewPrivateKeyPair(TakerSpendKey, View(TakerSpendKey))
TakerPubkeys == PublicKeyPair(TakerPrivkeys)

\* mutant: the view key is passed to the contract
getSecret_ViewKey == MakerPrivkeys.vk

\* swapState.getSecret: the scalar that unlocks the contract
getSecret == MakerSpendKey

\* mutant: the private spend key is sent in place of the private view key
SendKeysMessage_SpendKey ==
    [type |-> "SendKeysMessage",
     PublicSpendKey |-> MakerPubkeys.sk,
     PrivateViewKey |-> MakerPrivkeys.sk,
     Secp256k1PublicKey |-> MakerSecp256k1Pub,
     EthAddress |-> "bob"]

\* swapState.SendKeysMessage
SendKeysMessage ==
    [type |-> "SendKeysMessage",
     PublicSpendKey |-> MakerPubkeys.sk,
     PrivateViewKey |-> MakerPrivkeys.vk,
     Secp256k1PublicKey |-> MakerSecp256k1Pub,
     EthAddress |-> "bob"]

TakerSendKeysMessage ==
    [type |-> "SendKeysMessage",
     PublicSpendKey |-> TakerPubkeys.sk,
     PrivateViewKey |-> TakerPrivkeys.vk,
     Secp256k1PublicKey |-> MulG(TakerSpendKey),
     EthAddress |-> "alice"]

InitProto ==
    /\ taker = [state |-> "ExpectingKeys", swap |-> NoSwap,
                makerKeys |-> << >>, wallet |-> NoAddress]
    /\ maker = [nextExpectedMessage |-> "SendKeysMessage",
                status |-> "Ongoing",
                pc |-> "running",
                alicePublicKeys |-> << >>,
                aliceSecp256K1PublicKey |-> -1,
                contractSwapID |-> << >>,
                t0 |-> 0, t1 |-> 0,
                moneroReclaimAddress |-> NoAddress,
                offerID |-> OfferID,
                offers |-> {OfferID}]
    /\ stream = [open |-> TRUE, toMaker |-> <<TakerSendKeysMessage>>,
                 toTaker |-> << >>]
    /\ monero = [transfers |-> {}, wallets |-> {}]

\* the Takers that call take_offer on bob's offer
Takers == {"xmrtaker", "charlie"}

\* the swap on the offer has begun: the take of the first Taker was accepted
InitTaken == takes = [t \in Takers |-> IF t = "xmrtaker" THEN "accepted" ELSE "idle"]

\* no client has subscribed and the context of the swap is not cancelled
NotSubscribed == [done |-> FALSE]

\* Cancel has not been called
NotCancelled == [called |-> FALSE, returned |-> FALSE]

\* handleSigner has not been called: no offer ID is registered with the
\* signer, nothing was written to the connection or to txsInCh
NotSigning ==
    [pc |-> "idle", ids |-> {}, written |-> << >>, txsIn |-> << >>,
     params |-> << >>, err |-> ""]

\* no status was published and no client has subscribed to the statuses
NoStatusStream ==
    [kind |-> "", published |-> << >>, chClosed |-> FALSE,
     srv |-> "idle", taken |-> 0, written |-> << >>,
     cli |-> "idle", read |-> 0, delivered |-> << >>]

\* watchForReady or watchForRefund has not been called: no subscription,
\* no goroutine, and its channel does not exist yet
NotWatching ==
    [pc |-> "idle", sub |-> FALSE, running |-> FALSE, closed |-> FALSE,
     events |-> 0, sending |-> << >>, panic |-> ""]

\* the swap states of one Instance that use its monero-wallet-rpc client
WalletSwaps == {"swap1", "swap2"}

\* no swap has called the wallet client
NoWalletCalls ==
    [at |-> [sw \in WalletSwaps |-> "idle"], calls |-> << >>]

InitRPC ==
    rpc = [ctxDone |-> FALSE, sub |-> NotSubscribed, signer |-> "idle",
           cancel |-> NotCancelled, signing |-> NotSigning,
           statuses |-> NoStatusStream,
           watch |-> [ready |-> NotWatching, refund |-> NotWatching],
           wallet |-> NoWalletCalls]

\* a run of the recovery that has not happened
NoResult == [ran |-> FALSE]

InitRecovery ==
    recovery = [taker |-> [first |-> NoResult, second |-> NoResult],
                maker |-> [first |-> NoResult, second |-> NoResult]]

Init == InitChain /\ InitProto /\ InitCodec /\ InitTaken /\ InitRPC /\ InitRecovery

\* a message written to the stream is lost when the stream is closed
Send(q, m) == IF stream.open THEN Append(q, m) ELSE q

Closed == [open |-> FALSE, toMaker |-> << >>, toTaker |-> << >>]

----------------------------------------------------------------------------
(* The XMR-holder: protocol/bob/swap_state.go *)

\* swapState.checkContract: TRUE when it returns no error
checkContract(m) ==
    LET news == SelectSeq(logs, LAMBDA l : l.name = "New")
        hits == {i \in 1..Len(news) : news[i].swapID = m.contractSwapID}
    IN
    /\ Len(news) # 0
    /\ hits # {}
    /\ LET event == news[CHOOSE i \in hits : \A j \in hits : j <= i] IN
        /\ event.claimKey = Keccak256(MakerSecp256k1Pub)
        /\ event.refundKey = Keccak256(m.aliceSecp256K1PublicKey)
    /\ ~(SwapOfID(m.contractSwapID).value < EthValue)

\* swapState.lockFunds: the address the XMR is transferred to
lockFunds(m) == Address(SumSpendAndViewKeys(m.alicePublicKeys, MakerPubkeys))

\* swapState.filterForRefund: the secret of the first Refunded log of the
\* contract, 0 for errNoRefundLogsFound
filterForRefund(m) ==
    LET found == SelectSeq(logs, LAMBDA l : l.name = "Refunded") IN
    IF Len(found) = 0 THEN 0 ELSE found[1].s

\* swapState.reclaimMonero: the address of the wallet made of both key pairs
reclaimMonero(skA) ==
    LET vkA == View(skA)
        skAB == SumPrivateSpendKeys(skA, MakerPrivkeys.sk)
        vkAB == SumPrivateViewKeys(vkA, MakerPrivkeys.vk)
        kpAB == NewPrivateKeyPair(skAB, vkAB)
    IN CreateMoneroWallet(kpAB)

\* mutant: the status is set to Refunded although no Refunded log was found
tryReclaimMonero_AlwaysRefunded(m) ==
    LET skA == filterForRefund(m) IN
    IF skA = 0
    THEN [m EXCEPT !.pc = "exited", !.status = "Refunded"]
    ELSE [m EXCEPT !.pc = "exited", !.status = "Refunded",
                   !.moneroReclaimAddress = reclaimMonero(skA)]

\* swapState.tryReclaimMonero, as ProtocolExited uses it: the maker after it
tryReclaimMonero(m) ==
    LET skA == filterForRefund(m) IN
    IF skA = 0
    THEN [m EXCEPT !.pc = "exited"]
    ELSE [m EXCEPT !.pc = "exited", !.status = "Refunded",
                   !.moneroReclaimAddress = reclaimMonero(skA)]

ReclaimWallets(m) ==
    IF filterForRefund(m) = 0 THEN monero.wallets
    ELSE monero.wallets \cup
            {[owner |-> "bob", address |-> reclaimMonero(filterForRefund(m))]}

\* the handler of SendKeysMessage: setAlicePublicKeys, reply with own keys
MakerHandleSendKeys ==
    /\ lastCall = NoCall
    /\ stream.open /\ maker.pc = "running"
    /\ maker.nextExpectedMessage = "SendKeysMessage"
    /\ Len(stream.toMaker) > 0
    /\ LET msg == Head(stream.toMaker) IN
        /\ msg.type = "SendKeysMessage"
        /\ maker' = [maker EXCEPT
                !.alicePublicKeys = [sk |-> msg.PublicSpendKey,
                                     vk |-> PublicKey(msg.PrivateViewKey)],
                !.aliceSecp256K1PublicKey = msg.Secp256k1PublicKey,
                !.nextExpectedMessage = "NotifyContractDeployed"]
        /\ stream' = [stream EXCEPT !.toMaker = Tail(@),
                                    !.toTaker = Append(@, SendKeysMessage)]
    /\ UNCHANGED <<now, contractVars, lastCall, taker, monero>>
    /\ UNCHANGED <<codecVars, takes, rpc, recovery>>

\* the handler of NotifyContractDeployed: setContract, setTimeouts,
\* checkContract, lockFunds, reply NotifyXMRLock
MakerHandleNotifyContractDeployed ==
    /\ lastCall = NoCall
    /\ stream.open /\ maker.pc = "running"
    /\ maker.nextExpectedMessage = "NotifyContractDeployed"
    /\ Len(stream.toMaker) > 0
    /\ LET msg == Head(stream.toMaker)
           m == [maker EXCEPT !.contractSwapID = msg.ContractSwapID,
                              !.t0 = SwapOfID(msg.ContractSwapID).timeout_0,
                              !.t1 = SwapOfID(msg.ContractSwapID).timeout_1]
       IN
        /\ msg.type = "NotifyContractDeployed"
        /\ IF checkContract(m)
           THEN /\ monero' = [monero EXCEPT !.transfers =
                        @ \cup {[to |-> lockFunds(m), amount |-> XMRAmount]}]
                /\ maker' = [m EXCEPT !.nextExpectedMessage = "NotifyReady"]
                /\ stream' = [stream EXCEPT !.toMaker = Tail(@),
                        !.toTaker = Append(@, [type |-> "NotifyXMRLock",
                                               Address |-> lockFunds(m)])]
           ELSE \* the handler's error closes the stream
                /\ maker' = m
                /\ stream' = Closed
                /\ UNCHANGED monero
    /\ UNCHANGED <<now, contractVars, lastCall, taker>>
    /\ UNCHANGED <<codecVars, takes, rpc, recovery>>

\* the handler of NotifyReady: claimFunds, reply NotifyClaimed
MakerHandleNotifyReady ==
    /\ lastCall = NoCall
    /\ stream.open /\ maker.pc = "running"
    /\ maker.nextExpectedMessage = "NotifyReady"
    /\ Len(stream.toMaker) > 0
    /\ Head(stream.toMaker).type = "NotifyReady"
    /\ IF now < maker.t1
       THEN /\ claim("bob", SwapOfID(maker.contractSwapID), getSecret)
            /\ IF lastCall'.ok
               THEN /\ maker' = [maker EXCEPT !.status = "Success",
                                              !.nextExpectedMessage = "none"]
                    /\ stream' = [stream EXCEPT !.toMaker = Tail(@),
                            !.toTaker = Append(@, [type |-> "NotifyClaimed"])]
               ELSE /\ stream' = Closed
                    /\ UNCHANGED maker
       ELSE /\ stream' = Closed
            /\ UNCHANGED <<now, contractVars, lastCall, maker>>
    /\ UNCHANGED <<taker, monero>>
    /\ UNCHANGED <<codecVars, takes, rpc, recovery>>

\* claimFunds and what ProtocolExited does with its result
ClaimOrReclaim ==
    /\ claim("bob", SwapOfID(maker.contractSwapID), getSecret)
    /\ IF lastCall'.ok
       THEN /\ maker' = [maker EXCEPT !.pc = "exited"]
            /\ UNCHANGED monero
       ELSE /\ maker' = tryReclaimMonero(maker)
            /\ monero' = [monero EXCEPT !.wallets = ReclaimWallets(maker)]

\* mutant: the offer is removed whatever the status of the swap
OffersAfterExit_Always(m) == m.offers \ {m.offerID}

\* mutant: the offer is never removed
OffersAfterExit_Never(m) == m.offers

\* ProtocolExited: the offer is deleted when the status is Success
OffersAfterExit(m) ==
    IF m.status = "Success" THEN m.offers \ {m.offerID} ELSE m.offers

\* the body of swapState.ProtocolExited, up to the wait inside tryClaim
ProtocolExitedSwitch ==
    /\ IF maker.status \in {"Success", "Refunded"}
       THEN /\ maker' = [maker EXCEPT !.pc = "exited",
                                      !.offers = OffersAfterExit(maker)]
            /\ UNCHANGED <<now, contractVars, lastCall, monero>>
       ELSE IF maker.nextExpectedMessage \in {"SendKeysMessage", "NotifyContractDeployed"}
       THEN /\ maker' = [maker EXCEPT !.pc = "exited", !.status = "Aborted",
                                      !.offers = OffersAfterExit(maker)]
            /\ UNCHANGED <<now, contractVars, lastCall, monero>>
       ELSE IF maker.nextExpectedMessage = "NotifyReady"
       THEN \* tryClaim: untilT0 and untilT1 are read on entry
            IF now < maker.t0 /\ ~is_ready(maker.contractSwapID)
            THEN /\ maker' = [maker EXCEPT !.pc = "waitT0"]
                 /\ UNCHANGED <<now, contractVars, lastCall, monero>>
            ELSE IF now > maker.t1
            THEN \* errPastClaimTime
                 /\ maker' = tryReclaimMonero(maker)
                 /\ monero' = [monero EXCEPT !.wallets = ReclaimWallets(maker)]
                 /\ UNCHANGED <<now, contractVars, lastCall>>
            ELSE ClaimOrReclaim
       ELSE /\ maker' = [maker EXCEPT !.pc = "exited", !.status = "Aborted",
                                      !.offers = OffersAfterExit(maker)]
            /\ UNCHANGED <<now, contractVars, lastCall, monero>>

\* swapState.ProtocolExited, called when the stream of the swap has closed
ProtocolExited ==
    /\ lastCall = NoCall
    /\ ~stream.open /\ maker.pc = "running"
    /\ ProtocolExitedSwitch
    /\ UNCHANGED <<taker, stream>>
    /\ UNCHANGED <<codecVars, takes, rpc, recovery>>

\* ProtocolExited resumes after <-time.After(untilT0 + time.Second)
ProtocolExitedAfterWait ==
    /\ lastCall = NoCall
    /\ maker.pc = "waitT0"
    /\ now >= maker.t0 + 1
    /\ ClaimOrReclaim
    /\ UNCHANGED <<taker, stream>>
    /\ UNCHANGED <<codecVars, takes, rpc, recovery>>

----------------------------------------------------------------------------
(* The ETH-holder, as the escrow and the XMR-holder see it *)

TakerHandleSendKeys ==
    /\ lastCall = NoCall
    /\ stream.open /\ taker.state = "ExpectingKeys"
    /\ Len(stream.toTaker) > 0
    /\ Head(stream.toTaker).type = "SendKeysMessage"
    /\ taker' = [taker EXCEPT !.state = "KeysExchanged",
                              !.makerKeys = Head(stream.toTaker)]
    /\ stream' = [stream EXCEPT !.toTaker = Tail(@)]
    /\ UNCHANGED <<now, contractVars, lastCall, maker, monero>>
    /\ UNCHANGED <<codecVars, takes, rpc, recovery>>

TakerLockETH ==
    /\ lastCall = NoCall
    /\ taker.state = "KeysExchanged"
    /\ \E d \in SwapTimeouts :
        LET kc == Keccak256(taker.makerKeys.Secp256k1PublicKey)
            kr == Keccak256(MulG(TakerSpendKey))
            sw == NewSwapStruct("alice", kc, kr, taker.makerKeys.EthAddress,
                                d, 0, EthValue)
        IN
        /\ new_swap("alice", kc, kr, taker.makerKeys.EthAddress, d, 0, EthValue)
        /\ lastCall'.ok
        /\ taker' = [taker EXCEPT !.state = "ETHLocked", !.swap = sw]
        /\ stream' = [stream EXCEPT !.toMaker =
                Send(@, [type |-> "NotifyContractDeployed",
                         ContractSwapID |-> SwapID(sw)])]
    /\ UNCHANGED <<maker, monero>>
    /\ UNCHANGED <<codecVars, takes, rpc, recovery>>

TakerHandleNotifyXMRLock ==
    /\ lastCall = NoCall
    /\ stream.open /\ taker.state = "ETHLocked"
    /\ Len(stream.toTaker) > 0
    /\ LET msg == Head(stream.toTaker)
           mpub == [sk |-> taker.makerKeys.PublicSpendKey,
                    vk |-> PublicKey(taker.makerKeys.PrivateViewKey)]
       IN
        /\ msg.type = "NotifyXMRLock"
        /\ msg.Address = Address(SumSpendAndViewKeys(TakerPubkeys, mpub))
        /\ [to |-> msg.Address, amount |-> XMRAmount] \in monero.transfers
    /\ set_ready("alice", taker.swap)
    /\ lastCall'.ok
    /\ taker' = [taker EXCEPT !.state = "ContractReady"]
    /\ stream' = [stream EXCEPT !.toTaker = Tail(@),
                                !.toMaker = Append(@, [type |-> "NotifyReady"])]
    /\ UNCHANGED <<maker, monero>>
    /\ UNCHANGED <<codecVars, takes, rpc, recovery>>

\* cancel or the t0 timer in ETHLocked, the t1 timer in ContractReady
TakerRefund ==
    /\ lastCall = NoCall
    /\ \/ taker.state = "ETHLocked"
       \/ taker.state = "ContractReady" /\ now >= taker.swap.timeout_1
    /\ refund("alice", taker.swap, TakerSpendKey)
    /\ taker' = IF lastCall'.ok THEN [taker EXCEPT !.state = "CompletedRefund"]
                ELSE taker
    /\ UNCHANGED <<maker, stream, monero>>
    /\ UNCHANGED <<codecVars, takes, rpc, recovery>>

\* NotifyClaimed, or the Claimed log of the swap: take the XMR
TakerHandleClaimed ==
    /\ lastCall = NoCall
    /\ taker.state = "ContractReady"
    /\ \E i \in 1..Len(logs) :
        /\ logs[i].name = "Claimed" /\ logs[i].swapID = SwapID(taker.swap)
        /\ LET kp == NewPrivateKeyPair(
                        SumPrivateSpendKeys(TakerPrivkeys.sk, logs[i].s),
                        SumPrivateViewKeys(TakerPrivkeys.vk,
                                           taker.makerKeys.PrivateViewKey))
           IN /\ taker' = [taker EXCEPT !.state = "CompletedSuccess",
                                        !.wallet = CreateMoneroWallet(kp)]
              /\ monero' = [monero EXCEPT !.wallets = @ \cup
                    {[owner |-> "alice", address |-> CreateMoneroWallet(kp)]}]
    /\ stream' = IF stream.open /\ Len(stream.toTaker) > 0
                    /\ Head(stream.toTaker).type = "NotifyClaimed"
                 THEN [stream EXCEPT !.toTaker = Tail(@)] ELSE stream
    /\ UNCHANGED <<now, contractVars, lastCall, maker>>
    /\ UNCHANGED <<codecVars, takes, rpc, recovery>>

TakerStreamClosed ==
    /\ lastCall = NoCall
    /\ ~stream.open /\ taker.state = "ExpectingKeys"
    /\ taker' = [taker EXCEPT !.state = "CompletedAbort"]
    /\ UNCHANGED <<now, contractVars, lastCall, maker, stream, monero>>
    /\ UNCHANGED <<codecVars, takes, rpc, recovery>>

\* the protocol is over for one of the peers: it closes the stream
StreamDone ==
    /\ lastCall = NoCall
    /\ stream.open
    /\ \/ taker.state \in {"CompletedSuccess", "CompletedRefund", "CompletedAbort"}
       \/ maker.status # "Ongoing"
    /\ stream' = Closed
    /\ UNCHANGED <<now, contractVars, lastCall, taker, maker, monero>>
    /\ UNCHANGED <<codecVars, takes, rpc, recovery>>

\* a peer disconnects or the swap is cancelled
CloseStream ==
    /\ lastCall = NoCall
    /\ stream.open
    /\ stream' = Closed
    /\ UNCHANGED <<now, contractVars, lastCall, taker, maker, monero>>
    /\ UNCHANGED <<codecVars, takes, rpc, recovery>>

----------------------------------------------------------------------------
(* Taking the offer: two Takers call take_offer on the same offer *)

\* newSwapState: the swapState bob creates for an accepted take
newSwapState(b) ==
    [nextExpectedMessage |-> "SendKeysMessage",
     status |-> "Ongoing",
     pc |-> "running",
     alicePublicKeys |-> << >>,
     aliceSecp256K1PublicKey |-> -1,
     contractSwapID |-> << >>,
     t0 |-> 0, t1 |-> 0,
     moneroReclaimAddress |-> NoAddress,
     offerID |-> OfferID,
     offers |-> b.offers]

\* mutant: ProtocolExited leaves bob.swapState set
NoSwapState_NotCleared(b) == b.pc = "idle"

\* bob.swapState is nil: no swap was begun, or ProtocolExited has returned
NoSwapState(b) == b.pc \in {"idle", "exited"}

\* a Taker calls take_offer: its SendKeysMessage opens a stream to bob
TakeOffer ==
    /\ lastCall = NoCall
    /\ \E t \in Takers :
        /\ takes[t] = "idle"
        /\ takes' = [takes EXCEPT ![t] = "sent"]
    /\ UNCHANGED <<now, contractVars, lastCall, taker, maker, stream, monero>>
    /\ UNCHANGED <<codecVars, rpc, recovery>>

\* bob handles the first message of a Taker, holding swapMu: the take is
\* refused when the offer is not in the offer book or a swap is in progress.
\* The swap of the first accepted take runs as taker, maker and stream; of a
\* take accepted after that swap has exited only the acceptance is recorded.
HandleInitiateMessage ==
    /\ lastCall = NoCall
    /\ \E t \in Takers :
        /\ takes[t] = "sent"
        /\ IF OfferID \notin maker.offers \/ ~NoSwapState(maker)
           THEN /\ takes' = [takes EXCEPT ![t] = "error"]
                /\ UNCHANGED <<taker, maker, stream>>
           ELSE IF maker.pc = "idle"
           THEN /\ takes' = [takes EXCEPT ![t] = "accepted"]
                /\ maker' = newSwapState(maker)
                /\ taker' = [taker EXCEPT !.state = "ExpectingKeys"]
                /\ stream' = [open |-> TRUE, toMaker |-> <<TakerSendKeysMessage>>,
                              toTaker |-> << >>]
           ELSE /\ takes' = [takes EXCEPT ![t] = "second"]
                /\ UNCHANGED <<taker, maker, stream>>
    /\ UNCHANGED <<now, contractVars, lastCall, monero>>
    /\ UNCHANGED <<codecVars, rpc, recovery>>

----------------------------------------------------------------------------
(* bob's daemon: the swap manager and the websocket server, rpc/ws.go *)

\* the ID of the swap's info in the swap manager, and an ID of no swap
InfoID == 0
InfoIDs == {InfoID, InfoID + 1}

Nil == [nil |-> TRUE]

\* swap manager: the info of the swap while it runs
GetOngoingSwap(id) ==
    IF id = InfoID /\ maker.pc \in {"running", "waitT0"}
    THEN [nil |-> FALSE, status |-> maker.status] ELSE Nil

\* swap manager: the info of the swap after CompleteOngoingSwap, which
\* ProtocolExited calls when it returns
GetPastSwap(id) ==
    IF id = InfoID /\ maker.pc = "exited"
    THEN [nil |-> FALSE, status |-> maker.status] ELSE Nil

\* mutant: an unknown ID is answered without an error
writeSwapExitStatus_NoError(id) ==
    LET info == GetPastSwap(id) IN
    IF info.nil
    THEN [written |-> << >>, err |-> ""]
    ELSE [written |-> <<info.status>>, err |-> ""]

\* wsServer.writeSwapExitStatus: what it writes to the connection and returns
writeSwapExitStatus(id) ==
    LET info == GetPastSwap(id) IN
    IF info.nil
    THEN [written |-> << >>, err |-> "errNoSwapWithID"]
    ELSE [written |-> <<info.status>>, err |-> ""]

\* wsServer.subscribeSwapStatus, called once with some ID; for an ongoing
\* swap it goes on to forward the status channel
subscribeSwapStatus ==
    /\ lastCall = NoCall
    /\ ~rpc.sub.done
    /\ \E id \in InfoIDs :
        LET info == GetOngoingSwap(id) IN
        rpc' = [rpc EXCEPT !.sub =
            IF info.nil
            THEN [done |-> TRUE, id |-> id, ongoing |-> FALSE,
                  past |-> GetPastSwap(id),
                  written |-> writeSwapExitStatus(id).written,
                  err |-> writeSwapExitStatus(id).err]
            ELSE [done |-> TRUE, id |-> id, ongoing |-> TRUE,
                  past |-> Nil, written |-> << >>, err |-> ""]]
    /\ UNCHANGED <<now, contractVars, lastCall, taker, maker, stream, monero, takes, recovery>>
    /\ UNCHANGED codecVars

\* the context of the swap is cancelled: <-ctx.Done() becomes ready
CancelContext ==
    /\ ~rpc.ctxDone
    /\ rpc' = [rpc EXCEPT !.ctxDone = TRUE]
    /\ UNCHANGED <<now, contractVars, lastCall, taker, maker, stream, monero, takes, recovery>>
    /\ UNCHANGED codecVars

\* wsServer.handleSigner up to its loop
handleSigner ==
    /\ rpc.signer = "idle"
    /\ rpc' = [rpc EXCEPT !.signer = "select"]
    /\ UNCHANGED <<now, contractVars, lastCall, taker, maker, stream, monero, takes, recovery>>
    /\ UNCHANGED codecVars

\* the select of the loop: case <-ctx.Done()
SignerContextDone ==
    /\ rpc.signer = "select" /\ rpc.ctxDone
    /\ rpc' = [rpc EXCEPT !.signer = "returned"]
    /\ UNCHANGED <<now, contractVars, lastCall, taker, maker, stream, monero, takes, recovery>>
    /\ UNCHANGED codecVars

\* case <-time.After(time.Hour)
SignerTimedOut ==
    /\ rpc.signer = "select"
    /\ rpc' = [rpc EXCEPT !.signer = "returned"]
    /\ UNCHANGED <<now, contractVars, lastCall, taker, maker, stream, monero, takes, recovery>>
    /\ UNCHANGED codecVars

\* case tx := <-txsOutCh: the transaction is written to the connection, and
\* the loop calls conn.ReadMessage
SignerOutboundTx ==
    /\ rpc.signer = "select"
    /\ rpc' = [rpc EXCEPT !.signer = "ReadMessage"]
    /\ UNCHANGED <<now, contractVars, lastCall, taker, maker, stream, monero, takes, recovery>>
    /\ UNCHANGED codecVars

\* the client sends the signed transaction: conn.ReadMessage returns, the
\* hash goes to txsInCh and the loop selects again
SignerTxSigned ==
    /\ rpc.signer = "ReadMessage"
    /\ rpc' = [rpc EXCEPT !.signer = "select"]
    /\ UNCHANGED <<now, contractVars, lastCall, taker, maker, stream, monero, takes, recovery>>
    /\ UNCHANGED codecVars

----------------------------------------------------------------------------
(* wsServer.handleSigner with what it writes, reads and forwards *)

\* the transactions of the swap that need a signature
Txs == {"newSwap", "setReady"}

\* offer IDs a client can put in its reply, and transaction hashes
OfferIDStrs == {OfferID, "other"}
TxHashes == {"h1", "h2"}

\* what conn.ReadMessage and json.Unmarshal give: an error, or the
\* SignerTxSigned of the client
SignerReplies ==
    {[err |-> "ReadMessage"], [err |-> "Unmarshal"]} \cup
    {[err |-> "", OfferID |-> o, TxHash |-> h] : o \in OfferIDStrs, h \in TxHashes}

\* return of handleSigner once AddID was called: the deferred DeleteID runs
SignerReturn(e) == [rpc.signing EXCEPT !.pc = "returned", !.ids = @ \ {OfferID},
                                       !.err = e]

\* handleSigner from its call to the loop: the checks, AddID(offerID)
SignerSubscribe ==
    /\ rpc.signing.pc = "idle"
    /\ \E e \in {"", "errSignerNotRequired", "ValidateAddress", "offerIDStringToHash"} :
        rpc' = [rpc EXCEPT !.signing =
            IF e # "" THEN [@ EXCEPT !.pc = "returned", !.err = e]
            ELSE [@ EXCEPT !.pc = "select", !.ids = @ \cup {OfferID}]]
    /\ UNCHANGED <<now, contractVars, lastCall, taker, maker, stream, monero, takes, recovery>>
    /\ UNCHANGED codecVars

\* case <-ctx.Done(): return nil
SignerSelectDone ==
    /\ rpc.signing.pc = "select" /\ rpc.ctxDone
    /\ rpc' = [rpc EXCEPT !.signing = SignerReturn("")]
    /\ UNCHANGED <<now, contractVars, lastCall, taker, maker, stream, monero, takes, recovery>>
    /\ UNCHANGED codecVars

\* case <-time.After(time.Hour): return the error "signer timed out"
SignerSelectTimeout ==
    /\ rpc.signing.pc = "select"
    /\ rpc' = [rpc EXCEPT !.signing = SignerReturn("signer timed out")]
    /\ UNCHANGED <<now, contractVars, lastCall, taker, maker, stream, monero, takes, recovery>>
    /\ UNCHANGED codecVars

\* case tx := <-txsOutCh: conn.WriteJSON(resp), which may fail
SignerSelectTx ==
    /\ rpc.signing.pc = "select"
    /\ Len(rpc.signing.written) < MaxTxs
    /\ \E tx \in Txs, writeErr \in BOOLEAN :
        rpc' = [rpc EXCEPT !.signing =
            IF writeErr THEN SignerReturn("WriteJSON")
            ELSE [@ EXCEPT !.pc = "ReadMessage",
                           !.written = Append(@, [OfferID |-> OfferID, tx |-> tx])]]
    /\ UNCHANGED <<now, contractVars, lastCall, taker, maker, stream, monero, takes, recovery>>
    /\ UNCHANGED codecVars

\* mutant: the hash is forwarded whatever the OfferID of the reply
SignerReadsReply_AnyOffer ==
    /\ rpc.signing.pc = "ReadMessage"
    /\ \E params \in SignerReplies :
        rpc' = [rpc EXCEPT !.signing =
            IF params.err # "" THEN SignerReturn(params.err)
            ELSE [@ EXCEPT !.pc = "select", !.params = params,
                           !.txsIn = Append(@, params.TxHash)]]
    /\ UNCHANGED <<now, contractVars, lastCall, taker, maker, stream, monero, takes, recovery>>
    /\ UNCHANGED codecVars

\* conn.ReadMessage returns: Unmarshal, the check of params.OfferID, and
\* txsInCh <- params.TxHash
SignerReadsReply ==
    /\ rpc.signing.pc = "ReadMessage"
    /\ \E params \in SignerReplies :
        rpc' = [rpc EXCEPT !.signing =
            IF params.err # "" THEN SignerReturn(params.err)
            ELSE IF params.OfferID # OfferID
            THEN [SignerReturn("unexpected offerID") EXCEPT !.params = params]
            ELSE [@ EXCEPT !.pc = "select", !.params = params,
                           !.txsIn = Append(@, params.TxHash)]]
    /\ UNCHANGED <<now, contractVars, lastCall, taker, maker, stream, monero, takes, recovery>>
    /\ UNCHANGED codecVars

\* the loop of the external signer and the cancellation of its context
NextSigner ==
    \/ CancelContext \/ SignerSubscribe \/ SignerSelectDone
    \/ SignerSelectTimeout \/ SignerSelectTx \/ SignerReadsReply

SpecSigner == Init /\ [][NextSigner]_vars

----------------------------------------------------------------------------
(* The status streams: the loops of subscribeTakeOffer, subscribeMakeOffer
   and subscribeSwapStatus, and the reader of the websocket client *)

\* types.Status as the number of its name: two ongoing statuses and two
\* that end the swap
StatusNames == <<"ExpectingKeys", "XMRLocked", "CompletedSuccess", "CompletedRefund">>

StatusValues == 1..Len(StatusNames)

\* Status.String
StatusString(status) == StatusNames[status]

\* types.NewStatus, 0 for a string that names no status
NewStatus(str) ==
    IF \E st \in StatusValues : StatusNames[st] = str
    THEN CHOOSE st \in StatusValues : StatusNames[st] = str
    ELSE 0

\* Status.IsOngoing
IsOngoing(status) ==
    status \in StatusValues /\ StatusNames[status] \in {"ExpectingKeys", "XMRLocked"}

StreamKinds == {"takeOffer", "makeOffer", "swapStatus"}

\* the swap publishes a status on its status channel
PublishStatus ==
    /\ ~rpc.statuses.chClosed
    /\ Len(rpc.statuses.published) < MaxStatuses
    /\ \E status \in StatusValues :
        rpc' = [rpc EXCEPT !.statuses.published = Append(@, status)]
    /\ UNCHANGED <<now, contractVars, lastCall, taker, maker, stream, monero, takes, recovery>>
    /\ UNCHANGED codecVars

\* the status channel of the swap is closed
CloseStatusCh ==
    /\ ~rpc.statuses.chClosed
    /\ rpc' = [rpc EXCEPT !.statuses.chClosed = TRUE]
    /\ UNCHANGED <<now, contractVars, lastCall, taker, maker, stream, monero, takes, recovery>>
    /\ UNCHANGED codecVars

\* a client subscribes: the handler writes its first response (take-offer
\* and make-offer) and enters the loop; the client gets its channel when it
\* has read that response
SubscribeStatuses ==
    /\ rpc.statuses.srv = "idle"
    /\ \E kind \in StreamKinds, writeErr \in BOOLEAN :
        rpc' = [rpc EXCEPT !.statuses =
            IF writeErr /\ kind # "swapStatus"
            THEN [@ EXCEPT !.kind = kind, !.srv = "returned", !.cli = "error"]
            ELSE [@ EXCEPT !.kind = kind, !.srv = "loop", !.cli = "read"]]
    /\ UNCHANGED <<now, contractVars, lastCall, taker, maker, stream, monero, takes, recovery>>
    /\ UNCHANGED codecVars

\* mutant: the loop goes on after a status that is not ongoing
ServerStatus_NoReturn ==
    /\ rpc.statuses.srv = "loop"
    /\ rpc.statuses.taken < Len(rpc.statuses.published)
    /\ LET status == rpc.statuses.published[rpc.statuses.taken + 1] IN
        \E writeErr \in BOOLEAN :
            rpc' = [rpc EXCEPT !.statuses =
                IF writeErr
                THEN [@ EXCEPT !.taken = @ + 1, !.srv = "returned"]
                ELSE [@ EXCEPT !.taken = @ + 1,
                               !.written = Append(@, StatusString(status))]]
    /\ UNCHANGED <<now, contractVars, lastCall, taker, maker, stream, monero, takes, recovery>>
    /\ UNCHANGED codecVars

\* case status, ok := <-statusCh with ok: writeResponse, return after a
\* status that is not ongoing
ServerStatus ==
    /\ rpc.statuses.srv = "loop"
    /\ rpc.statuses.taken < Len(rpc.statuses.published)
    /\ LET status == rpc.statuses.published[rpc.statuses.taken + 1] IN
        \E writeErr \in BOOLEAN :
            rpc' = [rpc EXCEPT !.statuses =
                IF writeErr
                THEN [@ EXCEPT !.taken = @ + 1, !.srv = "returned"]
                ELSE [@ EXCEPT !.taken = @ + 1,
                               !.written = Append(@, StatusString(status)),
                               !.srv = IF IsOngoing(status) THEN "loop"
                                       ELSE "returned"]]
    /\ UNCHANGED <<now, contractVars, lastCall, taker, maker, stream, monero, takes, recovery>>
    /\ UNCHANGED codecVars

\* case status, ok := <-statusCh with !ok
ServerStatusChClosed ==
    /\ rpc.statuses.srv = "loop"
    /\ rpc.statuses.taken = Len(rpc.statuses.published)
    /\ rpc.statuses.chClosed
    /\ rpc' = [rpc EXCEPT !.statuses.srv = "returned"]
    /\ UNCHANGED <<now, contractVars, lastCall, taker, maker, stream, monero, takes, recovery>>
    /\ UNCHANGED codecVars

\* case <-ctx.Done()
ServerStatusCtxDone ==
    /\ rpc.statuses.srv = "loop"
    /\ rpc.ctxDone
    /\ rpc' = [rpc EXCEPT !.statuses.srv = "returned"]
    /\ UNCHANGED <<now, contractVars, lastCall, taker, maker, stream, monero, takes, recovery>>
    /\ UNCHANGED codecVars

\* the reader of the client: c.read, Unmarshal, respCh <- NewStatus, and
\* the deferred close(respCh) when it breaks or returns
ClientReadsStatus ==
    /\ rpc.statuses.cli = "read"
    /\ rpc.statuses.read < Len(rpc.statuses.written)
    /\ LET s == NewStatus(rpc.statuses.written[rpc.statuses.read + 1]) IN
        \E readErr \in BOOLEAN :
            rpc' = [rpc EXCEPT !.statuses =
                IF readErr
                THEN [@ EXCEPT !.read = @ + 1, !.cli = "closed"]
                ELSE [@ EXCEPT !.read = @ + 1,
                               !.delivered = Append(@, s),
                               !.cli = IF IsOngoing(s) THEN "read" ELSE "closed"]]
    /\ UNCHANGED <<now, contractVars, lastCall, taker, maker, stream, monero, takes, recovery>>
    /\ UNCHANGED codecVars

\* c.read fails once the handler has returned and everything was read
ClientReadFails ==
    /\ rpc.statuses.cli = "read"
    /\ rpc.statuses.read = Len(rpc.statuses.written)
    /\ rpc.statuses.srv = "returned"
    /\ rpc' = [rpc EXCEPT !.statuses.cli = "closed"]
    /\ UNCHANGED <<now, contractVars, lastCall, taker, maker, stream, monero, takes, recovery>>
    /\ UNCHANGED codecVars

NextStatus ==
    \/ CancelContext \/ PublishStatus \/ CloseStatusCh \/ SubscribeStatuses
    \/ ServerStatus \/ ServerStatusChClosed \/ ServerStatusCtxDone
    \/ ClientReadsStatus \/ ClientReadFails

SpecStatus == Init /\ [][NextStatus]_vars

----------------------------------------------------------------------------
(* bob's watchers of the contract events: src/bob/protocol.go *)

\* the logs of the contract with the given event name
EventsOf(name) == SelectSeq(logs, LAMBDA l : l.name = name)

\* close(ch) on the channel of watcher w: a second close panics, and so
\* does the goroutine that is blocked in a send on the channel
CloseChannel(w) ==
    IF w.closed THEN [w EXCEPT !.panic = "close of closed channel", !.running = FALSE]
    ELSE IF w.sending # << >>
    THEN [w EXCEPT !.closed = TRUE, !.panic = "send on closed channel",
                   !.running = FALSE]
    ELSE [w EXCEPT !.closed = TRUE]

\* ch <- v on the unbuffered channel of watcher w: a send on a closed
\* channel panics, a send on an open one blocks until a receiver takes v
SendOnChannel(w, v) ==
    IF w.closed THEN [w EXCEPT !.panic = "send on closed channel", !.running = FALSE]
    ELSE [w EXCEPT !.sending = <<v>>]

\* the key pair watchForRefund makes of the secret of a Refunded event
RefundKeyPair(sa) ==
    NewPrivateKeyPair(SumPrivateSpendKeys(sa, MakerPrivkeys.sk),
                      SumPrivateViewKeys(View(sa), MakerPrivkeys.vk))

\* a watcher up to its return statement: the subscription is made, from
\* the current block on, and the goroutine started
StartWatch(w, name) ==
    [w EXCEPT !.pc = "started", !.sub = TRUE, !.running = TRUE,
              !.events = Len(EventsOf(name))]

\* the return of a watcher: the deferred sub.Unsubscribe() and close
ReturnWatch(w) == [CloseChannel(w) EXCEPT !.pc = "returned", !.sub = FALSE]

\* watchForReady up to its return statement
watchForReady ==
    /\ rpc.watch.ready.pc = "idle"
    /\ rpc' = [rpc EXCEPT !.watch.ready = StartWatch(@, "Ready")]
    /\ UNCHANGED <<now, contractVars, lastCall, taker, maker, stream, monero, takes, recovery>>
    /\ UNCHANGED codecVars

\* watchForReady returns done: defer sub.Unsubscribe(), defer close(done)
watchForReadyReturns ==
    /\ rpc.watch.ready.pc = "started"
    /\ rpc' = [rpc EXCEPT !.watch.ready = ReturnWatch(@)]
    /\ UNCHANGED <<now, contractVars, lastCall, taker, maker, stream, monero, takes, recovery>>
    /\ UNCHANGED codecVars

\* watchForRefund up to its return statement
watchForRefund ==
    /\ rpc.watch.refund.pc = "idle"
    /\ rpc' = [rpc EXCEPT !.watch.refund = StartWatch(@, "Refunded")]
    /\ UNCHANGED <<now, contractVars, lastCall, taker, maker, stream, monero, takes, recovery>>
    /\ UNCHANGED codecVars

\* watchForRefund returns out: defer sub.Unsubscribe(), defer close(out)
watchForRefundReturns ==
    /\ rpc.watch.refund.pc = "started"
    /\ rpc' = [rpc EXCEPT !.watch.refund = ReturnWatch(@)]
    /\ UNCHANGED <<now, contractVars, lastCall, taker, maker, stream, monero, takes, recovery>>
    /\ UNCHANGED codecVars

\* the goroutine of watchForReady: case event := <-ch, close(done)
ReadyEvent ==
    /\ rpc.watch.ready.sub /\ rpc.watch.ready.running
    /\ rpc.watch.ready.sending = << >>
    /\ rpc.watch.ready.events < Len(EventsOf("Ready"))
    /\ rpc' = [rpc EXCEPT !.watch.ready =
                    [CloseChannel(@) EXCEPT !.events = @ + 1]]
    /\ UNCHANGED <<now, contractVars, lastCall, taker, maker, stream, monero, takes, recovery>>
    /\ UNCHANGED codecVars

\* the goroutine of watchForRefund: case refund := <-ch, out <- kpAB
RefundedEvent ==
    /\ rpc.watch.refund.sub /\ rpc.watch.refund.running
    /\ rpc.watch.refund.sending = << >>
    /\ rpc.watch.refund.events < Len(EventsOf("Refunded"))
    /\ LET event == EventsOf("Refunded")[rpc.watch.refund.events + 1] IN
        rpc' = [rpc EXCEPT !.watch.refund =
                    [SendOnChannel(@, RefundKeyPair(event.s)) EXCEPT !.events = @ + 1]]
    /\ UNCHANGED <<now, contractVars, lastCall, taker, maker, stream, monero, takes, recovery>>
    /\ UNCHANGED codecVars

\* the goroutines: case <-s.ctx.Done()
WatchContextDone ==
    /\ rpc.ctxDone
    /\ \E which \in {"ready", "refund"} :
        /\ rpc.watch[which].running
        /\ rpc.watch[which].sending = << >>
        /\ rpc' = [rpc EXCEPT !.watch[which].running = FALSE]
    /\ UNCHANGED <<now, contractVars, lastCall, taker, maker, stream, monero, takes, recovery>>
    /\ UNCHANGED codecVars

----------------------------------------------------------------------------
(* The calls of the swap states to the monero-wallet-rpc client of their
   Instance. The client has LockClient and UnlockClient (monero/client.go),
   which no function of the swap state calls: the calls below go to the
   client as they are, each of them one step. *)

\* swap sw, inside fn, makes the call on the client and goes on at next
ClientCall(sw, fn, call, next) ==
    [rpc.wallet EXCEPT !.at[sw] = next,
                       !.calls = Append(@, [swap |-> sw, fn |-> fn, call |-> call])]

\* lockFunds: s.bob.client.GetBalance(0)
lockFundsGetBalance ==
    /\ \E sw \in WalletSwaps, err \in BOOLEAN :
        /\ rpc.wallet.at[sw] = "idle"
        /\ rpc' = [rpc EXCEPT !.wallet = ClientCall(sw, "lockFunds", "GetBalance",
                                    IF err THEN "failed" ELSE "Transfer")]
    /\ UNCHANGED <<now, contractVars, lastCall, taker, maker, stream, monero, takes, recovery>>
    /\ UNCHANGED codecVars

\* lockFunds: s.bob.client.Transfer(address, 0, amount)
lockFundsTransfer ==
    /\ \E sw \in WalletSwaps, err \in BOOLEAN :
        /\ rpc.wallet.at[sw] = "Transfer"
        /\ rpc' = [rpc EXCEPT !.wallet = ClientCall(sw, "lockFunds", "Transfer",
                                    IF err THEN "failed" ELSE "GetAddress")]
    /\ UNCHANGED <<now, contractVars, lastCall, taker, maker, stream, monero, takes, recovery>>
    /\ UNCHANGED codecVars

\* lockFunds: s.bob.client.GetAddress(0)
lockFundsGetAddress ==
    /\ \E sw \in WalletSwaps, err \in BOOLEAN :
        /\ rpc.wallet.at[sw] = "GetAddress"
        /\ rpc' = [rpc EXCEPT !.wallet = ClientCall(sw, "lockFunds", "GetAddress",
                                    IF err THEN "failed" ELSE "Refresh")]
    /\ UNCHANGED <<now, contractVars, lastCall, taker, maker, stream, monero, takes, recovery>>
    /\ UNCHANGED codecVars

\* lockFunds: s.bob.client.Refresh()
lockFundsRefresh ==
    /\ \E sw \in WalletSwaps, err \in BOOLEAN :
        /\ rpc.wallet.at[sw] = "Refresh"
        /\ rpc' = [rpc EXCEPT !.wallet = ClientCall(sw, "lockFunds", "Refresh",
                                    IF err THEN "failed" ELSE "locked")]
    /\ UNCHANGED <<now, contractVars, lastCall, taker, maker, stream, monero, takes, recovery>>
    /\ UNCHANGED codecVars

\* reclaimMonero: monero.CreateMoneroWallet(..., s.bob.client, kpAB)
reclaimMoneroCreateWallet ==
    /\ \E sw \in WalletSwaps, err \in BOOLEAN :
        /\ rpc.wallet.at[sw] = "locked"
        /\ rpc' = [rpc EXCEPT !.wallet = ClientCall(sw, "reclaimMonero", "CreateMoneroWallet",
                                    IF err THEN "failed" ELSE "reclaimed")]
    /\ UNCHANGED <<now, contractVars, lastCall, taker, maker, stream, monero, takes, recovery>>
    /\ UNCHANGED codecVars

NextWallet ==
    \/ lockFundsGetBalance \/ lockFundsTransfer \/ lockFundsGetAddress
    \/ lockFundsRefresh \/ reclaimMoneroCreateWallet

SpecWallet == Init /\ [][NextWallet]_vars

----------------------------------------------------------------------------
(* The recovery of a swap from its persisted state: ClaimOrRefund of the
   ETH-holder, ClaimOrRecover of the XMR-holder *)

\* the result of a finished run is kept: the first, then the second
Ran(runs, res) ==
    IF runs.first.ran THEN [runs EXCEPT !.second = res]
    ELSE [runs EXCEPT !.first = res]

\* the wallet alice makes of her keys and the secret s of a Claimed log
TakerWalletFrom(s) ==
    CreateMoneroWallet(NewPrivateKeyPair(
        SumPrivateSpendKeys(TakerPrivkeys.sk, s),
        SumPrivateViewKeys(TakerPrivkeys.vk, taker.makerKeys.PrivateViewKey)))

\* the secret of the Claimed log of a swap, 0 when there is none
filterForClaim(id) ==
    LET found == SelectSeq(logs, LAMBDA l : l.name = "Claimed" /\ l.swapID = id) IN
    IF Len(found) = 0 THEN 0 ELSE found[1].s

TakerResult(claimed, refunded, address, tx) ==
    [ran |-> TRUE, Claimed |-> claimed, Refunded |-> refunded,
     MoneroAddress |-> address, tx |-> tx]

\* alice's recovery ends with the XMR taken
TakerRecoversClaim(id) ==
    LET address == TakerWalletFrom(filterForClaim(id)) IN
    /\ taker' = [taker EXCEPT !.state = "CompletedSuccess", !.wallet = address]
    /\ monero' = [monero EXCEPT !.wallets = @ \cup
                        {[owner |-> "alice", address |-> address]}]
    /\ recovery' = [recovery EXCEPT !.taker =
                        Ran(@, TakerResult(TRUE, FALSE, address, FALSE))]
    /\ UNCHANGED <<now, contractVars, lastCall>>

\* alice's recovery calls refund
TakerRecoversRefund ==
    /\ refund("alice", taker.swap, TakerSpendKey)
    /\ IF lastCall'.ok
       THEN /\ taker' = [taker EXCEPT !.state = "CompletedRefund"]
            /\ recovery' = [recovery EXCEPT !.taker =
                        Ran(@, TakerResult(FALSE, TRUE, NoAddress, TRUE))]
       ELSE UNCHANGED <<taker, recovery>>
    /\ UNCHANGED monero

\* recoveryState.ClaimOrRefund of the ETH-holder, run on the persisted swap
\* after the protocol has stopped
TakerClaimOrRefund ==
    /\ lastCall = NoCall
    /\ ~stream.open /\ taker.swap # NoSwap
    /\ ~recovery.taker.second.ran
    /\ LET id == SwapID(taker.swap)
           stage == Stage(id)
       IN
       IF stage = "COMPLETED"
       THEN IF filterForClaim(id) # 0
            THEN TakerRecoversClaim(id)
            ELSE /\ taker' = [taker EXCEPT !.state = "CompletedRefund"]
                 /\ recovery' = [recovery EXCEPT !.taker =
                        Ran(@, TakerResult(FALSE, TRUE, NoAddress, FALSE))]
                 /\ UNCHANGED <<now, contractVars, lastCall, monero>>
       ELSE IF stage = "PENDING" /\ now < taker.swap.timeout_0
       THEN TakerRecoversRefund
       ELSE IF now >= taker.swap.timeout_1
       THEN TakerRecoversRefund
       ELSE IF stage = "PENDING"
       THEN \* set_ready, then wait for the claim or for t1
            /\ set_ready("alice", taker.swap)
            /\ taker' = IF lastCall'.ok
                        THEN [taker EXCEPT !.state = "ContractReady"] ELSE taker
            /\ UNCHANGED <<monero, recovery>>
       ELSE \* READY before t1: wait for the Claimed log
            UNCHANGED <<now, contractVars, lastCall, taker, monero, recovery>>
    /\ UNCHANGED <<maker, stream, takes, rpc>>
    /\ UNCHANGED codecVars

MakerResult(claimed, recovered, address, tx) ==
    [ran |-> TRUE, Claimed |-> claimed, Recovered |-> recovered,
     MoneroAddress |-> address, tx |-> tx]

\* bob's recovery scans for the Refunded log and reclaims the XMR
MakerRecoversMonero ==
    /\ IF filterForRefund(maker) # 0
       THEN /\ maker' = [maker EXCEPT !.pc = "exited", !.status = "Refunded",
                    !.moneroReclaimAddress = reclaimMonero(filterForRefund(maker))]
            /\ recovery' = [recovery EXCEPT !.maker =
                    Ran(@, MakerResult(FALSE, TRUE,
                            reclaimMonero(filterForRefund(maker)), FALSE))]
       ELSE /\ maker' = [maker EXCEPT !.pc = "exited"]
            /\ UNCHANGED recovery
    /\ monero' = [monero EXCEPT !.wallets = ReclaimWallets(maker)]
    /\ UNCHANGED <<now, contractVars, lastCall>>

\* recoveryState.ClaimOrRecover of the XMR-holder, run on the persisted
\* swap when the daemon has stopped after the XMR was locked
MakerClaimOrRecover ==
    /\ lastCall = NoCall
    /\ ~stream.open
    /\ maker.pc \in {"running", "exited"}
    /\ maker.nextExpectedMessage = "NotifyReady"
    /\ ~recovery.maker.second.ran
    /\ LET id == maker.contractSwapID
           stage == Stage(id)
       IN
       IF stage = "COMPLETED"
       THEN IF filterForClaim(id) # 0
            THEN /\ maker' = [maker EXCEPT !.pc = "exited", !.status = "Success"]
                 /\ recovery' = [recovery EXCEPT !.maker =
                        Ran(@, MakerResult(TRUE, FALSE, NoAddress, FALSE))]
                 /\ UNCHANGED <<now, contractVars, lastCall, monero>>
            ELSE MakerRecoversMonero
       ELSE IF now < maker.t1
       THEN /\ claim("bob", SwapOfID(id), getSecret)
            /\ IF lastCall'.ok
               THEN /\ maker' = [maker EXCEPT !.pc = "exited", !.status = "Success"]
                    /\ recovery' = [recovery EXCEPT !.maker =
                            Ran(@, MakerResult(TRUE, FALSE, NoAddress, TRUE))]
               ELSE /\ maker' = [maker EXCEPT !.pc = "exited"]
                    /\ UNCHANGED recovery
            /\ UNCHANGED monero
       ELSE MakerRecoversMonero
    /\ UNCHANGED <<taker, stream, takes, rpc>>
    /\ UNCHANGED codecVars

----------------------------------------------------------------------------
(* carol's swap on the same SwapFactory *)

OtherSwaps == {id \in DOMAIN swaps : SwapOfID(id).owner = "carol"}

OtherNewSwap ==
    /\ lastCall = NoCall
    /\ OtherSwaps = {}
    /\ new_swap("carol", Keccak256(MulG(OtherClaimKey)),
                Keccak256(MulG(OtherRefundKey)), "carol", 1, 1, EthValue)
    /\ UNCHANGED protoVars
    /\ UNCHANGED codecVars

OtherRefund ==
    /\ lastCall = NoCall
    /\ \E id \in OtherSwaps :
        /\ Stage(id) # "COMPLETED"
        /\ refund("carol", SwapOfID(id), OtherRefundKey)
    /\ UNCHANGED protoVars
    /\ UNCHANGED codecVars

-----------------------------------------------------------------------------
(* The chain: any account may send any transaction; blocks advance time.   *)

\* structs a sender can pass to set_ready/claim/refund: the ones created on
\* chain, and forgeries of them that name the sender as owner and claimer
SwapArgs(sender) ==
    LET made == {SwapOfID(id) : id \in DOMAIN swaps} IN
    made \cup {[sw EXCEPT !.owner = sender, !.claimer = sender] : sw \in made}

NewSwapTx ==
    /\ lastCall = NoCall
    /\ \E sender \in Addresses, d \in Durations, n \in Nonces, v \in Values :
        \E claimer \in Addresses \ {sender} :
            /\ \/ Cardinality(DOMAIN swaps) < MaxSwaps
               \/ Stage(SwapID(NewSwapStruct(sender, ClaimKey, RefundKey,
                                             claimer, d, n, v))) # "INVALID"
            /\ new_swap(sender, ClaimKey, RefundKey, claimer, d, n, v)
    /\ UNCHANGED protoVars
    /\ UNCHANGED codecVars

SetReadyTx ==
    /\ lastCall = NoCall
    /\ \E sender \in Addresses :
        \E sw \in SwapArgs(sender) : set_ready(sender, sw)
    /\ UNCHANGED protoVars
    /\ UNCHANGED codecVars

ClaimTx ==
    /\ lastCall = NoCall
    /\ \E sender \in Addresses, s \in Scalars :
        \E sw \in SwapArgs(sender) : claim(sender, sw, s)
    /\ UNCHANGED protoVars
    /\ UNCHANGED codecVars

RefundTx ==
    /\ lastCall = NoCall
    /\ \E sender \in Addresses, s \in Scalars :
        \E sw \in SwapArgs(sender) : refund(sender, sw, s)
    /\ UNCHANGED protoVars
    /\ UNCHANGED codecVars

\* the sender has read the receipt of its transaction
Receipt ==
    /\ lastCall # NoCall
    /\ lastCall' = NoCall
    /\ UNCHANGED <<now, contractVars, protoVars>>
    /\ UNCHANGED codecVars

\* blocks are explored up to MaxTime, and past timeout_1 of alice's swap
TimeBound ==
    IF taker.swap = NoSwap \/ taker.swap.timeout_1 < MaxTime THEN MaxTime
    ELSE taker.swap.timeout_1 + 1

NextBlock ==
    /\ lastCall = NoCall
    /\ now < TimeBound
    /\ now' = now + 1
    /\ UNCHANGED <<contractVars, lastCall, protoVars>>
    /\ UNCHANGED codecVars

Next == NewSwapTx \/ SetReadyTx \/ ClaimTx \/ RefundTx \/ Receipt \/ NextBlock

Spec == Init /\ [][Next]_vars

\* carol's new_swap, sent in the first block
OtherNewSwapAtStart ==
    /\ now = 0
    /\ OtherNewSwap

\* any transactions of alice and bob, next to carol's swap in the same
\* contract
NextEscrow == Next \/ OtherNewSwapAtStart \/ OtherRefund

SpecEscrow == Init /\ [][NextEscrow]_vars

\* the contract under any transactions, with bob's two watchers
NextWatch ==
    \/ Next \/ CancelContext
    \/ watchForReady \/ watchForReadyReturns \/ ReadyEvent
    \/ watchForRefund \/ watchForRefundReturns \/ RefundedEvent
    \/ WatchContextDone

SpecWatch == Init /\ [][NextWatch]_vars

\* time goes on while a swap that holds ether has not reached timeout_1
LiveNextBlock ==
    /\ lastCall = NoCall
    /\ \/ now < MaxTime
       \/ \E id \in DOMAIN swaps : /\ swaps[id] # "COMPLETED"
                                   /\ now < SwapOfID(id).timeout_1
    /\ now' = now + 1
    /\ UNCHANGED <<contractVars, lastCall, protoVars>>
    /\ UNCHANGED codecVars

\* the owner of a swap that has reached timeout_1 sends its refund with the
\* secret of pubKeyRefund
OwnerRefund ==
    /\ lastCall = NoCall
    /\ \E id \in DOMAIN swaps :
        /\ swaps[id] # "COMPLETED"
        /\ now >= SwapOfID(id).timeout_1
        /\ refund(SwapOfID(id).owner, SwapOfID(id), TakerSpendKey)
    /\ UNCHANGED protoVars
    /\ UNCHANGED codecVars

NextLive ==
    \/ NewSwapTx \/ SetReadyTx \/ ClaimTx \/ RefundTx \/ Receipt
    \/ LiveNextBlock \/ OwnerRefund

\* blocks keep being produced and a live owner's refund is not held up for
\* ever by the transactions of others
SpecLive ==
    /\ Init /\ [][NextLive]_vars
    /\ SF_vars(LiveNextBlock) /\ SF_vars(OwnerRefund) /\ WF_vars(Receipt)

\* one swap between alice and bob, next to carol's swap
NextSwap ==
    \/ TakerHandleSendKeys \/ TakerLockETH \/ TakerHandleNotifyXMRLock
    \/ TakerRefund \/ TakerHandleClaimed \/ TakerStreamClosed
    \/ MakerHandleSendKeys \/ MakerHandleNotifyContractDeployed
    \/ MakerHandleNotifyReady \/ ProtocolExited \/ ProtocolExitedAfterWait
    \/ StreamDone \/ CloseStream \/ OtherNewSwap \/ OtherRefund
    \/ Receipt \/ NextBlock

SpecSwap == Init /\ [][NextSwap]_vars

\* bob has made the offer and no Taker has taken it yet
InitTake ==
    /\ InitChain /\ InitCodec
    /\ taker = [state |-> "Idle", swap |-> NoSwap,
                makerKeys |-> << >>, wallet |-> NoAddress]
    /\ maker = [newSwapState([offers |-> {OfferID}]) EXCEPT !.pc = "idle"]
    /\ stream = Closed
    /\ monero = [transfers |-> {}, wallets |-> {}]
    /\ takes = [t \in Takers |-> "idle"]
    /\ InitRPC /\ InitRecovery

\* two Takers take the offer; the accepted one swaps with bob
NextTake == TakeOffer \/ HandleInitiateMessage \/ NextSwap

SpecTake == InitTake /\ [][NextTake]_vars

\* the swap, with a client of bob's daemon that subscribes to its status
NextRPC == subscribeSwapStatus \/ NextSwap

SpecRPC == Init /\ [][NextRPC]_vars

\* the swap, its cancellation signal and the loop of the external signer
NextCancel ==
    \/ CancelContext \/ handleSigner \/ SignerContextDone \/ SignerTimedOut
    \/ SignerOutboundTx \/ SignerTxSigned \/ NextSwap

SpecCancel == Init /\ [][NextCancel]_vars

\* ProtocolExited has returned an error: the claim and the reclaim failed
ExitError ==
    /\ maker.pc = "exited" /\ maker.status = "Ongoing"
    /\ maker.nextExpectedMessage = "NotifyReady"
    /\ filterForClaim(maker.contractSwapID) = 0

\* Cancel(offerID) on bob's daemon: the ongoing swap of the offer is made to
\* exit, whatever the state of the stream
Cancel ==
    /\ lastCall = NoCall
    /\ ~rpc.cancel.called
    /\ ~GetOngoingSwap(InfoID).nil /\ maker.pc = "running"
    /\ ProtocolExitedSwitch
    /\ rpc' = [rpc EXCEPT !.cancel = [called |-> TRUE, returned |-> FALSE]]
    /\ UNCHANGED <<taker, stream, takes, recovery>>
    /\ UNCHANGED codecVars

\* Cancel returns once the exit has: the error, or the status of the past
\* swap
CancelReturns ==
    /\ lastCall = NoCall
    /\ rpc.cancel.called /\ ~rpc.cancel.returned
    /\ ~GetPastSwap(InfoID).nil
    /\ rpc' = [rpc EXCEPT !.cancel =
                    [called |-> TRUE, returned |-> TRUE, err |-> ExitError,
                     status |-> GetPastSwap(InfoID).status]]
    /\ UNCHANGED <<now, contractVars, lastCall, taker, maker, stream, monero, takes, recovery>>
    /\ UNCHANGED codecVars

NextExit == Cancel \/ CancelReturns \/ NextSwap

SpecExit == Init /\ [][NextExit]_vars

\* the swap, and the recovery of either peer once the stream is closed
NextRecovery == TakerClaimOrRefund \/ MakerClaimOrRecover \/ NextSwap

SpecRecovery == Init /\ [][NextRecovery]_vars

\* the next block does not expire a timer alice is waiting on: the swap
\* timeout is longer than the peers need for their steps
TimersLeftOpen ==
    CASE taker.state = "ETHLocked" -> now + 1 < taker.swap.timeout_0
      [] taker.state = "ContractReady" -> now + 1 < taker.swap.timeout_1
      [] OTHER -> TRUE

HappyNextBlock == TimersLeftOpen /\ NextBlock

\* both peers stay online, nobody cancels, and every peer takes its steps
NextHappy ==
    \/ TakerHandleSendKeys \/ TakerLockETH \/ TakerHandleNotifyXMRLock
    \/ TakerHandleClaimed
    \/ MakerHandleSendKeys \/ MakerHandleNotifyContractDeployed
    \/ MakerHandleNotifyReady \/ StreamDone \/ ProtocolExited
    \/ OtherNewSwap \/ OtherRefund
    \/ Receipt \/ HappyNextBlock

\* a peer's step is not held up for ever by the transactions of others
SpecHappy ==
    /\ Init /\ [][NextHappy]_vars
    /\ SF_vars(TakerHandleSendKeys) /\ SF_vars(TakerLockETH)
    /\ SF_vars(TakerHandleNotifyXMRLock) /\ SF_vars(TakerHandleClaimed)
    /\ SF_vars(MakerHandleSendKeys)
    /\ SF_vars(MakerHandleNotifyContractDeployed)
    /\ SF_vars(MakerHandleNotifyReady)
    /\ SF_vars(StreamDone) /\ SF_vars(ProtocolExited) /\ WF_vars(Receipt)

\* one message written to a stream and read from it
NextCodec == WriteMessage \/ WriteBytes \/ WriteBody \/ ReadMessage

SpecCodec == Init /\ [][NextCodec]_vars

TypeOK ==
    /\ now \in 0..(MaxTime + 5)
    /\ \A id \in DOMAIN swaps : swaps[id] \in {"PENDING", "READY", "COMPLETED"}
    /\ escrow >= 0
    /\ taker.state \in {"Idle", "ExpectingKeys", "KeysExchanged", "ETHLocked",
                        "ContractReady", "CompletedSuccess",
                        "CompletedRefund", "CompletedAbort"}
    /\ maker.status \in {"Ongoing", "Success", "Refunded", "Aborted"}
    /\ maker.pc \in {"idle", "running", "waitT0", "exited"}
    /\ \A t \in Takers : takes[t] \in {"idle", "sent", "accepted", "second", "error"}
    /\ stream.open \in BOOLEAN

-----------------------------------------------------------------------------
(* Properties of the escrow contract *)

StageIn(m, id) == IF id \in DOMAIN m THEN m[id] ELSE "INVALID"

LogsOf(name, id) ==
    {i \in 1..Len(logs) : logs[i].name = name /\ logs[i].swapID = id}

LoggedIDs == {logs[i].swapID : i \in 1..Len(logs)}

\* the step executes a transaction op (a reverted one leaves only lastCall)
IsCall(op) == lastCall'.op = op

\* C1: a swap ID in stage COMPLETED has exactly one log among its Claimed and
\* Refunded logs, and a swap ID in any other stage has none.
C1_OnePayoutLog ==
    \A id \in DOMAIN swaps \cup LoggedIDs :
        LET n == Cardinality(LogsOf("Claimed", id)) + Cardinality(LogsOf("Refunded", id))
        IN IF Stage(id) = "COMPLETED" THEN n = 1 ELSE n = 0

C1_Witness ==
    \E id \in DOMAIN swaps :
        /\ Stage(id) = "COMPLETED"
        /\ LogsOf("Refunded", id) # {}
        /\ lastCall.op = "claim" /\ ~lastCall.ok /\ lastCall.swapID = id

\* C3: claim succeeds exactly when the stage is PENDING or READY, the sender
\* is the claimer, now < t1, the stage is READY or now >= t0, and the secret
\* matches pubKeyClaim; a success completes the swap, pays value to the
\* claimer and emits Claimed(swapID, s); a revert changes nothing.
C3_ClaimAllowed(c) ==
    /\ Stage(c.swapID) \in {"PENDING", "READY"}
    /\ c.sender = c.swap.claimer
    /\ now < c.swap.timeout_1
    /\ (Stage(c.swapID) = "READY" \/ now >= c.swap.timeout_0)
    /\ Keccak256(MulG(c.s)) = c.swap.pubKeyClaim

C3_ClaimContract ==
    [][IsCall("claim") =>
        LET c == lastCall' IN
        /\ c.ok <=> C3_ClaimAllowed(c)
        /\ c.ok =>
            /\ StageIn(swaps', c.swapID) = "COMPLETED"
            /\ balances' = [balances EXCEPT ![c.swap.claimer] = @ + c.swap.value]
            /\ escrow' = escrow - c.swap.value
            /\ logs' = Append(logs, [name |-> "Claimed", swapID |-> c.swapID, s |-> c.s])
            /\ \A id \in DOMAIN swaps \ {c.swapID} : swaps'[id] = swaps[id]
        /\ ~c.ok => UNCHANGED <<swaps, balances, escrow, logs>>
    ]_vars

C3_Witness ==
    /\ lastCall.op = "claim" /\ lastCall.ok
    /\ Stage(lastCall.swapID) = "COMPLETED"
    /\ now >= lastCall.swap.timeout_0

\* C4: refund succeeds exactly when the stage is PENDING or READY, the sender
\* is the owner, (now >= t1, or now < t0 and the stage is not READY), and the
\* secret matches pubKeyRefund; a success completes the swap, pays value back
\* to the owner and emits Refunded(swapID, s); a revert changes nothing.
C4_RefundAllowed(c) ==
    /\ Stage(c.swapID) \in {"PENDING", "READY"}
    /\ c.sender = c.swap.owner
    /\ \/ now >= c.swap.timeout_1
       \/ (now < c.swap.timeout_0 /\ Stage(c.swapID) # "READY")
    /\ Keccak256(MulG(c.s)) = c.swap.pubKeyRefund

C4_RefundContract ==
    [][IsCall("refund") =>
        LET c == lastCall' IN
        /\ c.ok <=> C4_RefundAllowed(c)
        /\ c.ok =>
            /\ StageIn(swaps', c.swapID) = "COMPLETED"
            /\ balances' = [balances EXCEPT ![c.swap.owner] = @ + c.swap.value]
            /\ escrow' = escrow - c.swap.value
            /\ logs' = Append(logs, [name |-> "Refunded", swapID |-> c.swapID, s |-> c.s])
            /\ \A id \in DOMAIN swaps \ {c.swapID} : swaps'[id] = swaps[id]
            \* the owner's windows: [0, t0) before READY, or [t1, infinity)
            /\ \/ now < c.swap.timeout_0 /\ Stage(c.swapID) = "PENDING"
               \/ now >= c.swap.timeout_1
        /\ ~c.ok => UNCHANGED <<swaps, balances, escrow, logs>>
    ]_vars

C4_Witness ==
    /\ lastCall.op = "refund" /\ lastCall.ok
    /\ now >= lastCall.swap.timeout_1
    /\ LogsOf("Ready", lastCall.swapID) # {}

\* C5: at a time t with t0 <= t < t1 a refund call of the owner on a READY
\* swap is rejected.
C5_NoRefundInClaimWindow ==
    [][IsCall("refund") =>
        LET c == lastCall' IN
        (/\ c.sender = c.swap.owner
         /\ c.swap.timeout_0 <= now /\ now < c.swap.timeout_1
         /\ Stage(c.swapID) = "READY") => ~c.ok
    ]_vars

C5_Witness ==
    /\ lastCall.op = "refund" /\ ~lastCall.ok
    /\ lastCall.sender = lastCall.swap.owner
    /\ mulVerify(lastCall.s, lastCall.swap.pubKeyRefund)
    /\ lastCall.swap.timeout_0 <= now /\ now < lastCall.swap.timeout_1
    /\ Stage(lastCall.swapID) = "READY"

\* C6: set_ready reverts and leaves every stage unchanged unless the sender
\* is the owner and the stage is PENDING; a success makes the stage READY and
\* emits Ready(swapID); no other call makes a stage READY.
C6_SetReadyContract ==
    [][/\ IsCall("set_ready") =>
            LET c == lastCall' IN
            /\ c.ok <=> (c.sender = c.swap.owner /\ Stage(c.swapID) = "PENDING")
            /\ c.ok =>
                /\ StageIn(swaps', c.swapID) = "READY"
                /\ logs' = Append(logs, [name |-> "Ready", swapID |-> c.swapID])
            /\ ~c.ok => UNCHANGED <<swaps, logs>>
       /\ \A id \in DOMAIN swaps' :
            (StageIn(swaps', id) = "READY" /\ Stage(id) # "READY") =>
                /\ IsCall("set_ready") /\ lastCall'.ok /\ lastCall'.swapID = id
    ]_vars

C6_Witness ==
    /\ lastCall.op = "set_ready" /\ lastCall.ok
    /\ Stage(lastCall.swapID) = "READY"

\* C7: a stage moves from PENDING to READY only at a time before t0.
C7_ReadyOnlyBeforeT0 ==
    [][\A id \in DOMAIN swaps :
        (Stage(id) = "PENDING" /\ StageIn(swaps', id) = "READY") =>
            now < SwapOfID(id).timeout_0
    ]_vars

\* C8: a successful new_swap at block time now with duration D creates the
\* ID of the swap with t0 = now + D, t1 = now + 2*D, owner = sender and
\* value = msg.value, moving its stage from INVALID to PENDING; when the
\* stage of that ID is not INVALID the call reverts and no stage changes.
C8_NewSwapContract ==
    [][IsCall("new_swap") =>
        LET c == lastCall'
            sw == [owner |-> c.sender, claimer |-> c.claimer,
                   pubKeyClaim |-> c.pubKeyClaim, pubKeyRefund |-> c.pubKeyRefund,
                   timeout_0 |-> now + c.timeoutDuration,
                   timeout_1 |-> now + 2 * c.timeoutDuration,
                   value |-> c.value, nonce |-> c.nonce]
        IN
        /\ c.ok =>
            /\ c.swapID = SwapID(sw)
            /\ sw.timeout_0 <= sw.timeout_1
            /\ Stage(c.swapID) = "INVALID"
            /\ StageIn(swaps', c.swapID) = "PENDING"
            /\ \A id \in DOMAIN swaps : swaps'[id] = swaps[id]
            /\ escrow' = escrow + c.value
            /\ logs' = Append(logs, [name |-> "New", swapID |-> c.swapID,
                                     claimKey |-> c.pubKeyClaim,
                                     refundKey |-> c.pubKeyRefund,
                                     timeout_0 |-> now + c.timeoutDuration,
                                     timeout_1 |-> now + 2 * c.timeoutDuration])
        /\ Stage(SwapID(sw)) # "INVALID" => (~c.ok /\ UNCHANGED <<swaps, logs, escrow>>)
    ]_vars

C8_Witness ==
    /\ lastCall.op = "new_swap" /\ ~lastCall.ok
    /\ lastCall.swapID \in DOMAIN swaps

\* C9: once a Claimed or Refunded log exists for a swap ID its stage stays
\* COMPLETED, every later set_ready, claim, refund and new_swap on that ID
\* reverts, and a stage only moves INVALID -> PENDING, PENDING -> READY and
\* PENDING/READY -> COMPLETED.
C9_CompletedAbsorbing ==
    [][\A id \in DOMAIN swaps' :
        LET paid == LogsOf("Claimed", id) \cup LogsOf("Refunded", id)
            from == Stage(id)
            to == StageIn(swaps', id)
        IN
        /\ paid # {} => (from = "COMPLETED" /\ to = "COMPLETED")
        /\ (from = "COMPLETED" /\ lastCall'.op # "none" /\ lastCall'.swapID = id)
                => (~lastCall'.ok /\ UNCHANGED <<balances, escrow>>)
        /\ \/ from = to
           \/ from = "INVALID" /\ to = "PENDING"
           \/ from = "PENDING" /\ to = "READY"
           \/ from \in {"PENDING", "READY"} /\ to = "COMPLETED"
    ]_vars

C9_Witness ==
    /\ lastCall.op \in {"claim", "refund"} /\ ~lastCall.ok
    /\ Stage(lastCall.swapID) = "COMPLETED"
    /\ lastCall.sender \in {lastCall.swap.claimer, lastCall.swap.owner}

-----------------------------------------------------------------------------
(* Properties of the swap between alice and bob *)

\* the scalars the contract's Claimed and Refunded logs have made public
Revealed == {logs[i].s : i \in {j \in 1..Len(logs) :
                                logs[j].name \in {"Claimed", "Refunded"}}}

TakerKnowsMakerSecret == MakerSpendKey \in Revealed
MakerKnowsTakerSecret == TakerSpendKey \in Revealed

\* the address bob's XMR is locked at
LockAddress == Address(SumSpendAndViewKeys(TakerPubkeys, MakerPubkeys))

BothLocked ==
    /\ taker.swap # NoSwap
    /\ [to |-> LockAddress, amount |-> XMRAmount] \in monero.transfers

MakerHoldsETH == balances["bob"] = InitBalance + EthValue
TakerHoldsETH == balances["alice"] = InitBalance

C10_ReclaimsLockAddress ==
    maker.moneroReclaimAddress # NoAddress =>
        /\ maker.moneroReclaimAddress = LockAddress
        /\ LogsOf("Refunded", maker.contractSwapID) # {}

\* the Maker's claim window [.., t1) exists and has not passed
TimeoutsConsistent(m) == m.t0 < m.t1 /\ now < m.t1

\* the step is the Maker's handling of NotifyContractDeployed
HandlesContractDeployed ==
    /\ maker.nextExpectedMessage = "NotifyContractDeployed"
    /\ maker'.contractSwapID # maker.contractSwapID

\* C11: bob transfers XMR only in a step in which checkContract passed for the
\* notified swap ID (New log found, claim key, refund key, value) and the
\* timeouts of the swap are consistent; when a check fails the stream is
\* closed and nothing is transferred.
C11_LocksOnlyCheckedContract ==
    [][/\ monero'.transfers # monero.transfers =>
            /\ HandlesContractDeployed
            /\ checkContract(maker')
            /\ TimeoutsConsistent(maker')
       /\ (HandlesContractDeployed /\ ~checkContract(maker')) =>
            /\ monero'.transfers = monero.transfers
            /\ ~stream'.open
    ]_vars

-----------------------------------------------------------------------------
(* Properties of the message codec *)

SameMessage(m1, m2) ==
    /\ m1.type = m2.type
    /\ m1.isNil = m2.isNil
    /\ m1.isNil \/ m1.fields = m2.fields

\* C12: decoding the encoding of a message of any type succeeds and returns
\* a message of the same type equal to it.
C12_RoundTrip ==
    (received.done /\ received.hasSent) =>
        /\ received.err = ""
        /\ SameMessage(received.msg, received.sent)

\* the body is not a JSON object whose fields fit the struct of the tag
Malformed(t, j) ==
    \/ j.kind # "object"
    \/ \E f \in DOMAIN FieldKinds(t) \cap DOMAIN j.v :
            j.v[f].kind # "null" /\ ~FieldFits(FieldKinds(t)[f], j.v[f])

\* C13: DecodeMessage returns an error and no message for the empty input,
\* for a first byte that is no message tag and for a body malformed for its
\* tag; a message it returns has the type the tag names.
C13_DecodeRejects ==
    received.done =>
        LET b == received.bytes IN
        /\ (\/ Len(b) = 0
            \/ Len(b) > 0 /\ b[1] \notin MessageTypes
            \/ Len(b) > 0 /\ b[1] \in MessageTypes /\ Malformed(b[1], BodyOf(b)))
                => (received.err # "" /\ received.msg = NoMessage)
        /\ received.err = "" =>
                (~received.msg.isNil /\ received.msg.type = b[1])

-----------------------------------------------------------------------------
(* Scenarios of the swap *)

FirstLog(name, id) == CHOOSE i \in LogsOf(name, id) : \A j \in LogsOf(name, id) : i <= j

\* the swap went through set_ready and then claim, after both sides locked
SwappedInOrder ==
    LET id == SwapID(taker.swap) IN
    /\ BothLocked
    /\ LogsOf("New", id) # {} /\ LogsOf("Ready", id) # {}
    /\ LogsOf("Claimed", id) # {} /\ LogsOf("Refunded", id) = {}
    /\ FirstLog("New", id) < FirstLog("Ready", id)
    /\ FirstLog("Ready", id) < FirstLog("Claimed", id)

\* C14: when both peers are honest and online and nobody cancels, the swap
\* goes through lock, lock, set_ready and claim, and the statuses of bob and
\* alice end in Success.
C14_HappyPath ==
    <>[](/\ maker.status = "Success"
         /\ taker.state = "CompletedSuccess"
         /\ SwappedInOrder)

C14_Witness ==
    /\ maker.status = "Success" /\ maker.pc = "exited"
    /\ taker.state = "CompletedSuccess"
    /\ SwappedInOrder

C16_AbortBeforeLock ==
    taker.state = "CompletedAbort" =>
        /\ taker.swap = NoSwap
        /\ \A id \in DOMAIN swaps \cup LoggedIDs : SwapOfID(id).owner = "carol"
        /\ lastCall # NoCall => lastCall.sender = "carol"
        /\ balances["alice"] = InitBalance /\ balances["bob"] = InitBalance
        /\ monero.transfers = {} /\ monero.wallets = {}
        /\ maker.offerID \in maker.offers
        /\ maker.status \in {"Ongoing", "Aborted"}
        /\ maker.pc = "exited" => maker.status = "Aborted"

C16_Witness ==
    /\ taker.state = "CompletedAbort"
    /\ maker.pc = "exited" /\ maker.status = "Aborted"
    /\ maker.nextExpectedMessage = "NotifyContractDeployed"
    /\ OtherSwaps # {}

\* the step ends bob's ProtocolExited
MakerExits == maker.pc \in {"running", "waitT0"} /\ maker'.pc = "exited"

\* the step ends the recovery of a swap bob has locked XMR for
MakerRecovers ==
    /\ MakerExits
    /\ maker.status = "Ongoing"
    /\ maker.nextExpectedMessage = "NotifyReady"

\* bob's wallet of the reclaimed XMR is the one of the lock address
ReclaimedLockAddress ==
    /\ maker'.moneroReclaimAddress = LockAddress
    /\ [owner |-> "bob", address |-> LockAddress] \in monero'.wallets

\* C17: alice's cancel in ETHLocked, before set_ready, refunds her ETH
\* (CompletedRefund); bob, whose swap ends after that, finds the Refunded
\* log, reclaims the XMR it locked and ends Refunded.
C17_TakerCancelsAfterLock ==
    [][(/\ MakerExits
        /\ maker.status = "Ongoing"
        /\ taker.state = "CompletedRefund"
        /\ LogsOf("Ready", SwapID(taker.swap)) = {})
            => /\ LogsOf("Refunded", SwapID(taker.swap)) # {}
               /\ maker'.status = "Refunded"
               /\ BothLocked => ReclaimedLockAddress
    ]_vars

\* C18: when both sides are locked and bob returns after timeout_1, alice's
\* refund at or after timeout_1 succeeds, and bob, returning with her
\* Refunded log on the chain, reclaims the XMR with s_M + s_T and ends
\* Refunded, as alice ends CompletedRefund.
C18_MakerReturnsAfterT1 ==
    [][/\ (/\ MakerRecovers
           /\ now > maker.t1
           /\ LogsOf("Ready", maker.contractSwapID) # {}
           /\ LogsOf("Refunded", maker.contractSwapID) # {})
                => /\ maker'.status = "Refunded"
                   /\ ReclaimedLockAddress
                   /\ taker.state = "CompletedRefund"
       /\ (/\ taker.state = "ContractReady" /\ taker'.state # "ContractReady"
           /\ IsCall("refund"))
                => /\ now >= taker.swap.timeout_1
                   /\ lastCall'.ok /\ lastCall'.s = TakerSpendKey
                   /\ taker'.state = "CompletedRefund"
    ]_vars

\* C19: when both sides are locked and bob returns while the swap is READY,
\* timeout_0 has passed and timeout_1 has not, bob's claim succeeds and its
\* status ends Success; alice can then take the XMR with the claimed secret.
C19_MakerReturnsBeforeT1 ==
    [][(/\ MakerRecovers
        /\ is_ready(maker.contractSwapID)
        /\ maker.t0 <= now /\ now < maker.t1)
            => /\ IsCall("claim") /\ lastCall'.ok
               /\ logs'[Len(logs')].name = "Claimed"
               /\ logs'[Len(logs')].s = MakerSpendKey
               /\ maker'.status = "Success"
    ]_vars

\* C20: of two Takers that take the same offer, bob swaps with one at a time
\* and at most one completes with CompletedSuccess: the take of the other is
\* refused with an error, and is accepted for a swap of its own only when
\* the swap of the first did not end in CompletedSuccess.
C20_TakeOfferOnce ==
    /\ Cardinality({t \in Takers : takes[t] = "accepted"}) <= 1
    /\ (\E t \in Takers : takes[t] = "accepted") <=> maker.pc # "idle"
    /\ (\E t \in Takers : takes[t] = "second") => taker.state # "CompletedSuccess"

\* C24: when bob's ProtocolExited has returned, from whichever state it was
\* called and whatever the claim or the reclaim inside it gave, the status of
\* the swap is Success, Refunded or Aborted and never still Ongoing.
C24_ExitIsTerminal ==
    maker.pc = "exited" => maker.status \in {"Success", "Refunded", "Aborted"}

\* the statuses a swap ends with
Terminal == {"Success", "Refunded", "Aborted"}

C30_WaitsEndOnCancel ==
    rpc.ctxDone =>
        /\ (maker.pc = "waitT0" /\ lastCall = NoCall) => ENABLED ProtocolExitedAfterWait
        /\ rpc.signer \in {"select", "ReadMessage"} => ENABLED SignerContextDone

\* alice, in ETHLocked with the escrow PENDING, has her refund executed
RefundsInETHLocked ==
    /\ taker.state = "ETHLocked"
    /\ IsCall("refund") /\ lastCall'.sender = "alice"
    /\ Stage(SwapID(taker.swap)) = "PENDING"

\* C29 as stated: in ETHLocked with no XMR lock seen, the refund alice calls
\* once the time has reached t0 is accepted and she ends in CompletedRefund.
C29_RefundAtT0 ==
    [][(RefundsInETHLocked /\ now >= taker.swap.timeout_0)
            => lastCall'.ok /\ taker'.state = "CompletedRefund"]_vars

\* C29 amended: in ETHLocked the escrow accepts alice's refund before t0 and
\* from t1 on, and she ends in CompletedRefund; from t0 until t1 the refund
\* reverts and she stays in ETHLocked.
C29_RefundOutsideClaimWindow ==
    [][RefundsInETHLocked =>
        IF now < taker.swap.timeout_0 \/ now >= taker.swap.timeout_1
        THEN /\ lastCall'.ok /\ lastCall'.s = TakerSpendKey
             /\ taker'.state = "CompletedRefund"
             /\ Stage(SwapID(taker.swap))' = "COMPLETED"
        ELSE /\ ~lastCall'.ok
             /\ taker'.state = "ETHLocked"
             /\ UNCHANGED contractVars ]_vars

C29_Witness ==
    /\ taker.state = "CompletedRefund"
    /\ lastCall # NoCall /\ lastCall.op = "refund" /\ lastCall.ok
    /\ lastCall.sender = "alice"
    /\ now >= taker.swap.timeout_1
    /\ LogsOf("Ready", SwapID(taker.swap)) = {}


\* the result of the run of a peer's recovery that a step has finished
NewResult(role) ==
    IF recovery[role].first.ran THEN recovery'[role].second
    ELSE recovery'[role].first

TakerRefundedBy(id) ==
    /\ lastCall'.op = "refund" /\ lastCall'.ok /\ lastCall'.sender = "alice"
    /\ Stage(id)' = "COMPLETED"
    /\ LogsOf("Refunded", id)' # {}
    /\ NewResult("taker").ran
    /\ NewResult("taker").Refunded /\ ~NewResult("taker").Claimed
    /\ taker'.state = "CompletedRefund"

\* C25: a run of the ETH-holder's recovery on a swap whose ETH is locked
\* ends Claimed with the XMR wallet made of both secrets when the Claimed
\* log of the swap exists; it refunds, and ends Refunded, when the swap is
\* Pending before t0 and when t1 has passed with the swap not completed; no
\* result is both Claimed and Refunded
C25_ClaimOrRefund ==
    [][TakerClaimOrRefund =>
        LET id == SwapID(taker.swap) IN
        /\ filterForClaim(id) # 0 =>
              /\ NewResult("taker").ran
              /\ NewResult("taker").Claimed /\ ~NewResult("taker").Refunded
              /\ NewResult("taker").MoneroAddress = LockAddress
              /\ [owner |-> "alice", address |-> LockAddress] \in monero'.wallets
              /\ UNCHANGED contractVars
        /\ (Stage(id) = "PENDING" /\ now < taker.swap.timeout_0) =>
              TakerRefundedBy(id)
        /\ (Stage(id) # "COMPLETED" /\ now >= taker.swap.timeout_1) =>
              TakerRefundedBy(id)
        /\ recovery' # recovery =>
              ~(NewResult("taker").Claimed /\ NewResult("taker").Refunded)
    ]_vars

C25_Witness ==
    /\ recovery.taker.first.ran /\ recovery.taker.first.Refunded
    /\ recovery.taker.first.tx
    /\ now >= taker.swap.timeout_1
    /\ LogsOf("Ready", SwapID(taker.swap)) # {}
    /\ recovery.maker.first.ran


\* C26: a run of the XMR-holder's recovery claims, and ends Claimed, when
\* the swap is Ready before t1; when the ETH-holder has refunded the swap it
\* ends Recovered with the XMR in a wallet at the address the XMR was locked
\* to; no result is both Claimed and Recovered
C26_ClaimOrRecover ==
    [][MakerClaimOrRecover =>
        LET id == maker.contractSwapID IN
        /\ (Stage(id) = "READY" /\ now < maker.t1) =>
              /\ lastCall'.op = "claim" /\ lastCall'.ok /\ lastCall'.sender = "bob"
              /\ LogsOf("Claimed", id)' # {}
              /\ NewResult("maker").ran
              /\ NewResult("maker").Claimed /\ ~NewResult("maker").Recovered
        /\ LogsOf("Refunded", id) # {} =>
              /\ NewResult("maker").ran
              /\ NewResult("maker").Recovered /\ ~NewResult("maker").Claimed
              /\ NewResult("maker").MoneroAddress = LockAddress
              /\ [owner |-> "bob", address |-> LockAddress] \in monero'.wallets
        /\ recovery' # recovery =>
              ~(NewResult("maker").Claimed /\ NewResult("maker").Recovered)
    ]_vars


\* C27: the second run of a peer's recovery, made after the first run has
\* ended with a result, ends with the same result (Claimed, Refunded or
\* Recovered, and the same Monero address) and makes no successful call
\* that changes the escrow
C27_RecoveryIdempotent ==
    /\ recovery.taker.second.ran =>
          /\ recovery.taker.second.Claimed = recovery.taker.first.Claimed
          /\ recovery.taker.second.Refunded = recovery.taker.first.Refunded
          /\ recovery.taker.second.MoneroAddress = recovery.taker.first.MoneroAddress
          /\ ~recovery.taker.second.tx
    /\ recovery.maker.second.ran =>
          /\ recovery.maker.second.Claimed = recovery.maker.first.Claimed
          /\ recovery.maker.second.Recovered = recovery.maker.first.Recovered
          /\ recovery.maker.second.MoneroAddress = recovery.maker.first.MoneroAddress
          /\ ~recovery.maker.second.tx

C27_Witness ==
    /\ recovery.taker.second.ran /\ recovery.taker.second.Refunded
    /\ recovery.taker.first.tx
    /\ recovery.maker.second.ran /\ recovery.maker.second.Recovered
    /\ Stage(SwapID(taker.swap)) = "COMPLETED"


\* C22: when Cancel has returned a status, bob's swap has exited and the
\* status is the terminal one it ended with: Aborted when bob had locked no
\* XMR, and otherwise Success with the ETH claimed or Refunded with the XMR
\* reclaimed; never an ongoing status
C22_CancelReturnsTerminal ==
    (rpc.cancel.returned /\ ~rpc.cancel.err) =>
        /\ maker.pc = "exited"
        /\ rpc.cancel.status = maker.status
        /\ rpc.cancel.status \in Terminal
        /\ rpc.cancel.status = "Aborted" <=> monero.transfers = {}
        /\ rpc.cancel.status = "Success" =>
              LogsOf("Claimed", maker.contractSwapID) # {}
        /\ rpc.cancel.status = "Refunded" =>
              maker.moneroReclaimAddress # NoAddress


\* the keys and scalars a protocol message carries
MessageScalars(m) ==
    IF m.type = "SendKeysMessage"
    THEN {m.PublicSpendKey, m.PrivateViewKey, m.Secp256k1PublicKey}
    ELSE {}

\* the messages of bob that are on the stream or that alice has kept
MakerSent ==
    {stream.toTaker[i] : i \in 1..Len(stream.toTaker)}
        \cup (IF DOMAIN taker.makerKeys = {} THEN {} ELSE {taker.makerKeys})

\* the messages of alice that are on the stream
TakerSent == {stream.toMaker[i] : i \in 1..Len(stream.toMaker)}

\* what alice can read: bob's messages and the secrets in the event logs
TakerView == Revealed \cup UNION {MessageScalars(m) : m \in MakerSent}

\* what bob can read: alice's messages and the secrets in the event logs
MakerView == Revealed \cup UNION {MessageScalars(m) : m \in TakerSent}

SpendKeyNotSent ==
    /\ \A m \in MakerSent : MakerSpendKey \notin MessageScalars(m)
    /\ MakerSpendKey \in TakerView <=>
          \E i \in 1..Len(logs) : /\ logs[i].name = "Claimed"
                                  /\ taker.swap # NoSwap
                                  /\ logs[i].swapID = SwapID(taker.swap)
                                  /\ logs[i].s = MakerSpendKey
    /\ TakerSpendKey \in MakerView <=>
          \E i \in 1..Len(logs) : /\ logs[i].name = "Refunded"
                                  /\ taker.swap # NoSwap
                                  /\ logs[i].swapID = SwapID(taker.swap)
                                  /\ logs[i].s = TakerSpendKey

SpendKeyLearnt ==
    /\ (MakerSpendKey \notin TakerView /\ MakerSpendKey \in TakerView') =>
          /\ lastCall'.op = "claim" /\ lastCall'.ok /\ lastCall'.sender = "bob"
          /\ lastCall'.s = MakerSpendKey
    /\ (TakerSpendKey \notin MakerView /\ TakerSpendKey \in MakerView') =>
          /\ lastCall'.op = "refund" /\ lastCall'.ok /\ lastCall'.sender = "alice"
          /\ lastCall'.s = TakerSpendKey

OpenSwaps == {id \in DOMAIN swaps : swaps[id] \in {"PENDING", "READY"}}

\* the scalar that verifySecret accepts for a public key
SecretOf(pubKey) == CHOOSE s \in 0..(GroupOrder - 1) : verifySecret(s, pubKey)

\* the claimer's claim with the secret of pubKeyClaim would be accepted now
ClaimEnabled(id) ==
    ClaimRequire(SwapOfID(id).claimer, SwapOfID(id),
                 SecretOf(SwapOfID(id).pubKeyClaim))

\* the owner's refund with the secret of pubKeyRefund would be accepted now
RefundEnabled(id) ==
    RefundRequire(SwapOfID(id).owner, SwapOfID(id),
                  SecretOf(SwapOfID(id).pubKeyRefund))

\* C32: for every swap in stage PENDING or READY, at every block time,
\* exactly one of the claimer's claim and the owner's refund, each with the
\* right secret, would succeed
C32_OnePayoutEnabled ==
    \A id \in OpenSwaps : ClaimEnabled(id) # RefundEnabled(id)

C32_Witness ==
    \E id \in OpenSwaps :
        /\ swaps[id] = "PENDING"
        /\ SwapOfID(id).timeout_0 <= now /\ now < SwapOfID(id).timeout_1
        /\ ClaimEnabled(id) /\ ~RefundEnabled(id)
        /\ lastCall # NoCall /\ lastCall.op = "refund" /\ ~lastCall.ok


RefundOpenAfterT1 ==
    \A id \in OpenSwaps :
        now >= SwapOfID(id).timeout_1 => RefundEnabled(id)

\* C33: a swap in stage PENDING or READY can be refunded by its owner with
\* the right secret at every block time >= timeout_1, whatever was called
\* before; when blocks keep coming and the owner sends that refund, every
\* swap that was created reaches COMPLETED: as a swap leaves PENDING and
\* READY only for COMPLETED, that is, again and again no swap holds ether
C33_NeverStuck ==
    /\ []RefundOpenAfterT1
    /\ []<>(OpenSwaps = {})

C33_Witness ==
    \E id \in DOMAIN swaps :
        /\ swaps[id] = "COMPLETED"
        /\ LogsOf("Ready", id) # {}
        /\ lastCall # NoCall /\ lastCall.op = "refund" /\ lastCall.ok
        /\ lastCall.swapID = id
        /\ now >= SwapOfID(id).timeout_1


RECURSIVE SumOfValues(_)
\* the sum of the values of a set of swaps
SumOfValues(ids) ==
    IF ids = {} THEN 0
    ELSE LET id == CHOOSE x \in ids : TRUE IN
         SwapOfID(id).value + SumOfValues(ids \ {id})

\* the contract holds the values of the swaps in stage PENDING or READY
Solvent == escrow = SumOfValues(OpenSwaps)

\* ether leaves the contract only as the whole value of one open swap, by a
\* successful claim to its claimer or a successful refund to its owner, and
\* that swap is COMPLETED afterwards
PaidInFullOnce ==
    (escrow' < escrow \/ \E a \in Accounts : balances'[a] > balances[a]) =>
        LET sw == lastCall'.swap
            to == IF lastCall'.op = "claim" THEN sw.claimer ELSE sw.owner
        IN
        /\ lastCall'.ok /\ lastCall'.op \in {"claim", "refund"}
        /\ lastCall'.swapID = SwapID(sw)
        /\ lastCall'.swapID \in OpenSwaps
        /\ swaps'[lastCall'.swapID] = "COMPLETED"
        /\ escrow' = escrow - sw.value
        /\ balances' = [balances EXCEPT ![to] = @ + sw.value]
        /\ \A id \in DOMAIN swaps : id # lastCall'.swapID => swaps'[id] = swaps[id]

\* C34: the ether held by the contract is the sum of the values of the
\* swaps in stage PENDING or READY, and the value of a swap is paid out at
\* most once, in full, to its claimer by claim or to its owner by refund,
\* also with several swaps open in the contract
C34_EscrowSolvent == []Solvent /\ [][PaidInFullOnce]_vars

C34_Witness ==
    /\ Cardinality(DOMAIN swaps) = 2
    /\ Cardinality(OpenSwaps) = 1
    /\ escrow = 1
    /\ lastCall # NoCall /\ lastCall.op = "claim" /\ lastCall.ok
    /\ balances[lastCall.swap.claimer] = InitBalance + 1


\* a step in which tryClaim (ProtocolExited with NotifyReady expected next)
\* submits bob's claim transaction
TryClaimSubmits ==
    /\ maker.pc \in {"running", "waitT0"} /\ maker'.pc = "exited"
    /\ maker.nextExpectedMessage = "NotifyReady"
    /\ lastCall = NoCall /\ lastCall' # NoCall
    /\ lastCall'.op = "claim" /\ lastCall'.sender = "bob"

\* C35: every claim transaction tryClaim submits is sent while the escrow is
\* READY or now >= t0, and now < t1, whatever the timeout of the swap
C35_ClaimInWindow ==
    [][TryClaimSubmits =>
        /\ is_ready(maker.contractSwapID) \/ now >= maker.t0
        /\ now < maker.t1]_vars


\* the step submits bob's claim and the escrow accepts it
ClaimSucceeds ==
    /\ lastCall = NoCall /\ lastCall' # NoCall
    /\ lastCall'.op = "claim" /\ lastCall'.sender = "bob" /\ lastCall'.ok

\* the wallet of the summed keys, made of the secret of the Refunded log found
SummedKeyWallet ==
    [owner |-> "bob", address |-> reclaimMonero(filterForRefund(maker))]

Released ==
    /\ NoSwapState(maker)
    /\ GetOngoingSwap(InfoID).nil
    /\ ~GetPastSwap(InfoID).nil

\* the exit comes before bob has locked XMR
ExitsBeforeLock ==
    /\ MakerExits
    /\ maker.nextExpectedMessage \in {"SendKeysMessage", "NotifyContractDeployed"}

\* bob answers the take of Taker t
TakeAnswered(t) == takes[t] = "sent" /\ takes'[t] # "sent"

TakesOutboundTx ==
    Len(rpc'.signing.written) = Len(rpc.signing.written) + 1

\* a step of the signer loop that forwards a hash to txsInCh
ForwardsHash ==
    Len(rpc'.signing.txsIn) = Len(rpc.signing.txsIn) + 1

\* every transaction taken so far was answered with one forwarded hash,
\* but for the one the loop is reading the reply of
Alternates ==
    /\ rpc.signing.pc = "ReadMessage" =>
        Len(rpc.signing.written) = Len(rpc.signing.txsIn) + 1
    /\ rpc.signing.pc = "select" =>
        Len(rpc.signing.written) = Len(rpc.signing.txsIn)
    /\ Len(rpc.signing.written) - Len(rpc.signing.txsIn) \in {0, 1}
    /\ \A i \in 1..Len(rpc.signing.written) :
        rpc.signing.written[i].OfferID = OfferID

\* the offer ID is registered with the signer exactly while the loop runs
Registered ==
    /\ rpc.signing.pc \in {"select", "ReadMessage"} => OfferID \in rpc.signing.ids
    /\ rpc.signing.pc \in {"idle", "returned"} => rpc.signing.ids = {}

\* C38: the loop of the external signer alternates strictly: for each
\* outbound transaction it writes one SignerResponse and forwards one hash
\* to txsInCh before it takes the next transaction; it forwards a hash only
\* when the OfferID of the reply is the one subscribed to, and otherwise
\* returns an error without forwarding; the ID registered with AddID is
\* removed again on every return
C38_SignerAlternates ==
    /\ [](Alternates /\ Registered)
    /\ [][/\ TakesOutboundTx =>
                /\ Len(rpc.signing.written) = Len(rpc.signing.txsIn)
                /\ ~ForwardsHash
          /\ ForwardsHash =>
                /\ rpc.signing.pc = "ReadMessage"
                /\ rpc'.signing.pc = "select"
                /\ ~TakesOutboundTx
                /\ rpc'.signing.params.OfferID = OfferID
                /\ rpc'.signing.txsIn =
                        Append(rpc.signing.txsIn, rpc'.signing.params.TxHash)
          /\ (rpc.signing.pc = "ReadMessage" /\ rpc'.signing.pc = "returned") =>
                /\ rpc'.signing.err # ""
                /\ rpc'.signing.txsIn = rpc.signing.txsIn]_vars

C38_Witness ==
    /\ rpc.signing.pc = "returned"
    /\ rpc.signing.err = "unexpected offerID"
    /\ rpc.signing.params.OfferID # OfferID
    /\ Len(rpc.signing.written) = 2 /\ Len(rpc.signing.txsIn) = 1
    /\ rpc.signing.ids = {}


\* zero or more ongoing statuses, then at most one that is not ongoing
EndsAtTerminal(seq) ==
    \A i \in 1..Len(seq) : ~IsOngoing(seq[i]) => i = Len(seq)

\* the statuses written to the connection, as the client decodes them
WrittenStatuses ==
    [i \in 1..Len(rpc.statuses.written) |-> NewStatus(rpc.statuses.written[i])]

\* seq is the beginning of the published statuses, in their order
InPublishedOrder(seq) ==
    /\ Len(seq) <= Len(rpc.statuses.published)
    /\ \A i \in 1..Len(seq) : seq[i] = rpc.statuses.published[i]

StatusStreamShape ==
    /\ EndsAtTerminal(WrittenStatuses) /\ InPublishedOrder(WrittenStatuses)
    /\ EndsAtTerminal(rpc.statuses.delivered)
    /\ InPublishedOrder(rpc.statuses.delivered)
    /\ Len(rpc.statuses.delivered) <= Len(rpc.statuses.written)
    /\ (\E i \in 1..Len(rpc.statuses.written) : ~IsOngoing(WrittenStatuses[i]))
            => rpc.statuses.srv = "returned"
    /\ (\E i \in 1..Len(rpc.statuses.delivered) : ~IsOngoing(rpc.statuses.delivered[i]))
            => rpc.statuses.cli = "closed"

\* C39: a status stream, on the server and on the client, carries zero or
\* more ongoing statuses in the order they were published, then at most one
\* status that is not ongoing, and then ends: nothing is written after the
\* handler has returned, nothing is delivered after the client's channel was
\* closed, and the channel is closed once a terminal status was delivered
C39_StatusStream ==
    /\ []StatusStreamShape
    /\ [][/\ rpc.statuses.srv = "returned" =>
                rpc'.statuses.written = rpc.statuses.written
          /\ rpc.statuses.cli = "closed" =>
                /\ rpc'.statuses.delivered = rpc.statuses.delivered
                /\ rpc'.statuses.cli = "closed"]_vars

C39_Witness ==
    /\ rpc.statuses.cli = "closed"
    /\ Len(rpc.statuses.delivered) = 2
    /\ IsOngoing(rpc.statuses.delivered[1])
    /\ ~IsOngoing(rpc.statuses.delivered[2])
    /\ Len(rpc.statuses.published) = 3


\* a receive from the channel of the watcher would not block: the channel
\* was returned to the caller and is closed (no value is ever waiting on it
\* then: a send blocked at the close has panicked)
Readable(w) == w.pc = "returned" /\ w.closed

\* C40: the channels of watchForReady and watchForRefund signal only after
\* the matching event of the contract: the ready channel is closed only
\* after a Ready event and the refund channel is readable only after a
\* Refunded event, and no watcher sends or closes on a closed channel
C40_SignalAfterEvent ==
    /\ Readable(rpc.watch.ready) => Len(EventsOf("Ready")) > 0
    /\ Readable(rpc.watch.refund) => Len(EventsOf("Refunded")) > 0
    /\ rpc.watch.ready.panic = "" /\ rpc.watch.refund.panic = ""


\* C31: the calls one swap makes on the wallet client inside lockFunds
\* (balance, transfer, address, refresh) are not interleaved with the wallet
\* calls of another swap
C31_WalletSerialised ==
    \A i, j, k \in 1..Len(rpc.wallet.calls) :
        (/\ i < j /\ j < k
         /\ rpc.wallet.calls[i].swap = rpc.wallet.calls[k].swap
         /\ rpc.wallet.calls[i].fn = "lockFunds"
         /\ rpc.wallet.calls[k].fn = "lockFunds")
            => rpc.wallet.calls[j].swap = rpc.wallet.calls[i].swap

=============================================================================
